---- MODULE Spec2Model ----
(***************************************************************************)
(* Model of the scoring pipeline of project-health-scanner (src/main.py):  *)
(* ProjectScanner.scan_projects, _analyze_project and the signal sources   *)
(* it calls, up to the ProjectHealth records appended to self.projects.    *)
(*                                                                         *)
(* Conventions                                                             *)
(*   - a Python str is a sequence of one-character strings;                *)
(*   - Optional[x] is a sequence of length <= 1: None is <<>>, x is <<x>>; *)
(*   - a score is an integer number of tenths (10.0 is 100): every         *)
(*     adjustment of _calculate_health_score is a multiple of 0.1;         *)
(*   - a point in time is an integer number of days; Today is the day the  *)
(*     scan runs on (datetime.now()).                                      *)
(***************************************************************************)
EXTENDS Integers, Sequences, FiniteSets, TLC

\* ------------------------------------------------------------------------
\* Python built-ins used by the code
\* ------------------------------------------------------------------------
None == <<>>

Some(x) == <<x>>

Min(a, b) == IF a <= b THEN a ELSE b

Max(a, b) == IF a >= b THEN a ELSE b

\* the 29 characters str.strip() strips, those with str.isspace(): space, \n,
\* \t, \r, \f, U+000B, U+001C to U+001F, U+0085, U+00A0, U+1680, and the spaces
\* from U+2000 on (U+2000 to U+200A, U+2028, U+2029, U+202F, U+205F, U+3000).
\* A string here cannot hold a character from U+2000 on: each of them is the
\* element named by its code point, one element of the text like any other
\* character.
Whitespace ==
    {" ", "\n", "\t", "\r", "\f", "", "", "", "", "", "", " ", " ",
     "U+2000", "U+2001", "U+2002", "U+2003", "U+2004", "U+2005", "U+2006", "U+2007",
     "U+2008", "U+2009", "U+200A", "U+2028", "U+2029", "U+202F", "U+205F", "U+3000"}

\* s.startswith(p)
StartsWith(s, p) == Len(p) <= Len(s) /\ SubSeq(s, 1, Len(p)) = p

\* sub in s
Contains(s, sub) ==
    \E i \in 1..(Len(s) - Len(sub) + 1) : SubSeq(s, i, i + Len(sub) - 1) = sub

RECURSIVE LStrip(_)
LStrip(s) == IF s # <<>> /\ Head(s) \in Whitespace THEN LStrip(Tail(s)) ELSE s

RECURSIVE RStrip(_)
RStrip(s) ==
    IF s # <<>> /\ s[Len(s)] \in Whitespace THEN RStrip(SubSeq(s, 1, Len(s) - 1)) ELSE s

\* s.strip()
Strip(s) == RStrip(LStrip(s))

\* s.find(sub, from): least 1-based index >= from at which sub occurs, 0 if none
Find(s, sub, from) ==
    LET hits == {i \in from..(Len(s) - Len(sub) + 1) : SubSeq(s, i, i + Len(sub) - 1) = sub}
    IN  IF hits = {} THEN 0 ELSE CHOOSE i \in hits : \A j \in hits : i <= j

\* s.split(sep) for a non-empty separator
RECURSIVE Split(_, _)
Split(s, sep) ==
    LET i == Find(s, sep, 1)
    IN  IF i = 0 THEN <<s>>
        ELSE <<SubSeq(s, 1, i - 1)>> \o Split(SubSeq(s, i + Len(sep), Len(s)), sep)

\* s.replace(old, new) for a non-empty old
RECURSIVE Replace(_, _, _)
Replace(s, old, new) ==
    LET i == Find(s, old, 1)
    IN  IF i = 0 THEN s
        ELSE SubSeq(s, 1, i - 1) \o new \o Replace(SubSeq(s, i + Len(old), Len(s)), old, new)

\* s.count(sub): non-overlapping occurrences
RECURSIVE Count(_, _)
Count(s, sub) ==
    LET i == Find(s, sub, 1)
    IN  IF i = 0 THEN 0 ELSE 1 + Count(SubSeq(s, i + Len(sub), Len(s)), sub)

\* sep.join(parts)
RECURSIVE Join(_, _)
Join(parts, sep) ==
    IF parts = <<>> THEN <<>>
    ELSE IF Len(parts) = 1 THEN parts[1]
    ELSE parts[1] \o sep \o Join(Tail(parts), sep)

\* fnmatch of a name against a pattern whose only wildcard is '*'
RECURSIVE Glob(_, _)
Glob(pat, name) ==
    IF pat = <<>> THEN name = <<>>
    ELSE IF Head(pat) = "*"
         THEN \E k \in 0..Len(name) : Glob(Tail(pat), SubSeq(name, k + 1, Len(name)))
         ELSE name # <<>> /\ Head(name) = Head(pat) /\ Glob(Tail(pat), Tail(name))

\* PurePath.suffix: from the last '.' of the name, unless that dot leads or ends it
Suffix(name) ==
    LET dots == {i \in 1..Len(name) : name[i] = "."}
        last == CHOOSE i \in dots : \A j \in dots : j <= i
    IN  IF dots = {} THEN <<>>
        ELSE IF last = 1 \/ last = Len(name) THEN <<>>
        ELSE SubSeq(name, last, Len(name))

\* n copies of s, concatenated
RECURSIVE Repeat(_, _)
Repeat(s, n) == IF n <= 0 THEN <<>> ELSE s \o Repeat(s, n - 1)

\* sum of f[k] over a finite set of keys
RECURSIVE SumOver(_, _)
SumOver(f, keys) ==
    IF keys = {} THEN 0
    ELSE LET k == CHOOSE x \in keys : TRUE IN f[k] + SumOver(f, keys \ {k})

\* the elements of a sequence
Range(s) == {s[i] : i \in 1..Len(s)}

\* ------------------------------------------------------------------------
\* Bounds of the model
\* ------------------------------------------------------------------------
\* the day the scan runs on (datetime.now()), in days
Today == 1000

\* greatest number of immediate children of the scan root
MaxChildren == 2

\* greatest number of scan_projects calls a caller makes on one scanner
MaxScans == 2

\* magnitude of the synthetic tier values fed to the score aggregator
Synthetic == 300

\* dict.get(key, default)
Get(d, key, default) == IF key \in DOMAIN d THEN d[key] ELSE default

\* ------------------------------------------------------------------------
\* Score aggregator: ProjectScanner._calculate_health_score
\* One operator per block of the function; all values in tenths.
\* ------------------------------------------------------------------------
\* a penalty that is a tenth of a point per change, at most one point
UncommittedAdj_Capped(git_info) ==
    IF git_info.uncommitted > 0 THEN -Min(10, git_info.uncommitted) ELSE 0

UncommittedAdj(git_info) ==
    IF git_info.uncommitted > 0
    THEN IF git_info.uncommitted > 50 THEN -30
         ELSE IF git_info.uncommitted > 10 THEN -20
         ELSE -Min(10, git_info.uncommitted)
    ELSE 0

\* (datetime.now(tz) - last_commit).days
DaysOld(t) == Today - t

CommitAgeAdj(git_info) ==
    IF git_info.last_commit # None
    THEN LET days_old == DaysOld(git_info.last_commit[1])
         IN  IF days_old > 365 THEN -40
             ELSE IF days_old > 180 THEN -25
             ELSE IF days_old > 60 THEN -15
             ELSE IF days_old > 14 THEN -5
             ELSE 0
    ELSE 0

RemoteStatusAdj(git_info) == IF git_info.remote_status = "unknown" THEN -5 ELSE 0

DependencyAdj(dep_info) ==
    IF dep_info.has_deps
    THEN LET total_deps == SumOver(dep_info.dep_counts, DOMAIN dep_info.dep_counts)
         IN  5 + (IF 5 <= total_deps /\ total_deps <= 50 THEN 3
                  ELSE IF total_deps > 100 THEN -5
                  ELSE 0)
    ELSE 0

MultiLanguageAdj(dep_info) == IF Len(dep_info.languages) > 1 THEN 2 ELSE 0

OpenIssuesAdj(github_info) ==
    LET open_issues == Get(github_info, "open_issues", 0)
    IN  IF open_issues > 50 THEN -15
        ELSE IF open_issues > 20 THEN -10
        ELSE IF open_issues > 10 THEN -5
        ELSE 0

\* the bottleneck penalty applied from 10 open PRs on
OpenPRsAdj_From10(github_info) ==
    LET open_prs == Get(github_info, "open_prs", 0)
    IN  IF 1 <= open_prs /\ open_prs <= 5 THEN 3
        ELSE IF open_prs >= 10 THEN -3
        ELSE 0

OpenPRsAdj(github_info) ==
    LET open_prs == Get(github_info, "open_prs", 0)
    IN  IF 1 <= open_prs /\ open_prs <= 5 THEN 3
        ELSE IF open_prs > 10 THEN -3
        ELSE 0

StarsAdj(github_info) ==
    LET stars == Get(github_info, "stars", 0)
    IN  IF stars > 1000 THEN 5
        ELSE IF stars > 100 THEN 3
        ELSE IF stars > 10 THEN 1
        ELSE 0

ActivityAdj(git_info, github_info) ==
    LET last_activity == Get(github_info, "last_activity", None)
    IN  IF last_activity # None /\ git_info.last_commit # None
        THEN IF DaysOld(last_activity[1]) <= 7 THEN 2 ELSE 0
        ELSE 0

\* `if github_info:` is false for None and for an empty dict
GithubAdj(git_info, github_opt) ==
    IF github_opt # None /\ DOMAIN github_opt[1] # {}
    THEN LET github_info == github_opt[1]
         IN  OpenIssuesAdj(github_info) + OpenPRsAdj(github_info)
               + StarsAdj(github_info) + ActivityAdj(git_info, github_info)
    ELSE 0

QualityAdj(quality_opt) ==
    IF quality_opt # None
    THEN LET quality_info == quality_opt[1]
         IN  (IF quality_info.has_readme THEN 3 + quality_info.readme_quality ELSE 0)
               + (IF quality_info.has_documentation THEN 4 ELSE 0)
               + (IF quality_info.has_tests THEN 5 + quality_info.test_coverage ELSE 0)
               + (IF quality_info.has_ci_cd THEN 6 ELSE 0)
               + Min(5, quality_info.code_quality_tools)
               + quality_info.project_structure
    ELSE 0

\* the running `score` before the final clamp
UnclampedScore(git_info, dep_info, github_opt, quality_opt) ==
    100 + UncommittedAdj(git_info) + CommitAgeAdj(git_info) + RemoteStatusAdj(git_info)
        + DependencyAdj(dep_info) + MultiLanguageAdj(dep_info)
        + GithubAdj(git_info, github_opt) + QualityAdj(quality_opt)

\* a clamp that forgets the upper bound
Clamp_LowerOnly(score) == Max(0, score)

\* a clamp that forgets the lower bound
Clamp_UpperOnly(score) == Min(100, score)

\* return max(0.0, min(10.0, score))
Clamp(score) == Max(0, Min(100, score))

_calculate_health_score(git_info, dep_info, github_opt, quality_opt) ==
    Clamp(UnclampedScore(git_info, dep_info, github_opt, quality_opt))

\* ------------------------------------------------------------------------
\* VCS inspector: the pure parts of ProjectScanner._get_git_info
\* ------------------------------------------------------------------------
Digits == {"0", "1", "2", "3", "4", "5", "6", "7", "8", "9"}

AllDigits(s) == \A i \in 1..Len(s) : s[i] \in Digits

\* datetime.fromisoformat (lines 176 and 418) as CPython 3.11 implements it.
\* Positions are 1-based; beyond the end of the text the parser reads the
\* terminator, written "" here.
Ch(s, i) == IF i \in 1..Len(s) THEN s[i] ELSE ""

DigitValue(c) ==
    CASE c = "0" -> 0 [] c = "1" -> 1 [] c = "2" -> 2 [] c = "3" -> 3 [] c = "4" -> 4
      [] c = "5" -> 5 [] c = "6" -> 6 [] c = "7" -> 7 [] c = "8" -> 8 [] c = "9" -> 9

\* parse_digits succeeds: the n characters from position i are digits
DigitsAt(s, i, n) == \A k \in i..(i + n - 1) : Ch(s, k) \in Digits

RECURSIVE NumberAt(_, _, _)
NumberAt(s, i, n) ==
    IF n = 0 THEN 0 ELSE NumberAt(s, i, n - 1) * 10 + DigitValue(s[i + n - 1])

\* the number of characters of the date part, or -1: YYYY-MM-DD (10),
\* YYYYMMDD (8), YYYY-Www (8), YYYYWww (7), YYYY-Www-d (10), YYYYWwwd (8)
FindSeparator(s) ==
    LET len == Len(s)
    IN  IF len = 7 THEN 7
        ELSE IF Ch(s, 5) = "-"
        THEN IF Ch(s, 6) = "W"
             THEN IF len < 8 THEN -1
                  ELSE IF len > 8 /\ Ch(s, 9) = "-"
                  THEN IF len = 9 THEN -1
                       ELSE IF len > 10 /\ Ch(s, 11) \in Digits THEN 8
                       ELSE 10
                  ELSE 8
             ELSE 10
        ELSE IF Ch(s, 5) = "W"
        THEN LET stops == {k \in 7..(len - 1) : Ch(s, k + 1) \notin Digits}
                 idx   == IF stops = {} THEN len
                          ELSE CHOOSE k \in stops : \A j \in stops : k <= j
             IN  IF idx < 9 THEN idx
                 ELSE IF idx % 2 = 0 THEN 7 ELSE 8
        ELSE 8

IsLeap(year) == year % 4 = 0 /\ (year % 100 # 0 \/ year % 400 = 0)

DaysInMonth(year, month) ==
    IF month = 2 THEN (IF IsLeap(year) THEN 29 ELSE 28)
    ELSE IF month \in {4, 6, 9, 11} THEN 30 ELSE 31

\* the date constructor accepts year, month and day
ValidDate(year, month, day) ==
    /\ year \in 1..9999
    /\ month \in 1..12
    /\ day \in 1..DaysInMonth(year, month)

\* the days before 1 January of the year, counted from 0001-01-01
DaysBeforeYear(year) ==
    LET y == year - 1
    IN  y * 365 + (y \div 4) - (y \div 100) + (y \div 400)

\* iso_to_ymd gives a date the date constructor accepts: one whose ordinal
\* is at most that of 9999-12-31
ValidWeekDate(year, week, day) ==
    /\ year >= 1
    /\ LET first_day     == DaysBeforeYear(year) + 1
           first_weekday == (first_day + 6) % 7
           week1_monday  == first_day - first_weekday
                              + (IF first_weekday > 3 THEN 7 ELSE 0)
           ordinal       == week1_monday + (week - 1) * 7 + day - 1
           MaxOrdinal    == 3652059
       IN  /\ \/ week \in 1..52
              \/ week = 53 /\ (first_weekday = 3 \/ (first_weekday = 2 /\ IsLeap(year)))
           /\ day \in 1..7
           /\ ordinal \in 1..MaxOrdinal

\* parse_isoformat_date, and the date constructor, accept the first `len`
\* characters of s
ParseIsoformatDate(s, len) ==
    /\ DigitsAt(s, 1, 4)
    /\ LET year           == NumberAt(s, 1, 4)
           uses_separator == Ch(s, 5) = "-"
           p              == IF uses_separator THEN 6 ELSE 5
       IN  IF Ch(s, p) = "W"
           THEN /\ DigitsAt(s, p + 1, 2)
                /\ LET q       == p + 3
                       has_day == q - 1 < len
                       dpos    == IF uses_separator THEN q + 1 ELSE q
                   IN  /\ has_day => /\ uses_separator => Ch(s, q) = "-"
                                     /\ DigitsAt(s, dpos, 1)
                       /\ ValidWeekDate(year, NumberAt(s, p + 1, 2),
                                        IF has_day THEN NumberAt(s, dpos, 1) ELSE 1)
           ELSE /\ DigitsAt(s, p, 2)
                /\ uses_separator => Ch(s, p + 2) = "-"
                /\ LET dpos == IF uses_separator THEN p + 3 ELSE p + 2
                   IN  /\ DigitsAt(s, dpos, 2)
                       /\ ValidDate(year, NumberAt(s, p, 2), NumberAt(s, dpos, 2))

\* the fraction after hours, minutes and seconds: at most six digits are
\* read, further digits skipped; rv is 1 when text is left over
ParseFraction(s, p, p_end, vals) ==
    LET to_parse == Min(6, p_end - p)
    IN  IF ~DigitsAt(s, p, to_parse) THEN [rv |-> -3, vals |-> vals]
        ELSE LET rest == {k \in (p + to_parse)..(Len(s) + 1) : Ch(s, k) \notin Digits}
                 stop == CHOOSE k \in rest : \A j \in rest : k <= j
             IN  [rv |-> IF Ch(s, stop) # "" THEN 1 ELSE 0, vals |-> vals]

\* parse_hh_mm_ss_ff from position p up to (not including) p_end: the i-th of
\* the three pairs HH[:MM[:SS]], with or without ':' as the first pair has it.
\* rv < 0 is a failure, rv = 1 means that a character is left before p_end.
RECURSIVE ParsePairs(_, _, _, _, _, _)
ParsePairs(s, p, p_end, i, has_separator, vals) ==
    IF i = 3 THEN ParseFraction(s, p, p_end, vals)
    ELSE IF ~DigitsAt(s, p, 2) THEN [rv |-> -3, vals |-> vals]
    ELSE LET c    == Ch(s, p + 2)
             q    == p + 3
             sep  == IF i = 0 THEN c = ":" ELSE has_separator
             read == [vals EXCEPT ![i + 1] = NumberAt(s, p, 2)]
         IN  IF q >= p_end THEN [rv |-> IF c # "" THEN 1 ELSE 0, vals |-> read]
             ELSE IF sep /\ c = ":" THEN ParsePairs(s, q, p_end, i + 1, sep, read)
             ELSE IF c \in {".", ","} THEN ParseFraction(s, q, p_end, read)
             ELSE IF ~sep THEN ParsePairs(s, q - 1, p_end, i + 1, sep, read)
             ELSE [rv |-> -4, vals |-> read]

ParseHhMmSsFf(s, p, p_end) == ParsePairs(s, p, p_end, 0, TRUE, <<0, 0, 0>>)

\* parse_isoformat_time, and the time and timezone constructors, accept the
\* text from position p: the time runs up to the first 'Z', '+' or '-'; an
\* offset is parsed like a time and must be below 24 hours
ParseIsoformatTime(s, p) ==
    LET p_end      == Len(s) + 1
        marks      == {k \in p..Len(s) : s[k] \in {"Z", "+", "-"}}
        tzinfo_pos == IF marks # {} THEN CHOOSE k \in marks : \A j \in marks : k <= j
                      ELSE Max(p_end, p + 1)
        time       == ParseHhMmSsFf(s, p, tzinfo_pos)
        in_range   == time.vals[1] < 24 /\ time.vals[2] < 60 /\ time.vals[3] < 60
    IN  IF time.rv < 0 THEN FALSE
        ELSE IF tzinfo_pos = p_end THEN time.rv = 0 /\ in_range
        ELSE IF Ch(s, tzinfo_pos) = "Z" THEN Ch(s, tzinfo_pos + 1) = "" /\ in_range
        ELSE LET offset == ParseHhMmSsFf(s, tzinfo_pos + 1, p_end)
             IN  /\ offset.rv = 0
                 /\ in_range
                 /\ offset.vals[1] * 3600 + offset.vals[2] * 60 + offset.vals[3] < 86400

\* Whether datetime.fromisoformat accepts s (CPython 3.11): a date in one of
\* the six forms, then optionally any one separator character and a time
\* (from the second position after the date), then optionally 'Z' or a UTC
\* offset.
FromIsoformatAccepts(s) ==
    /\ Len(s) >= 7
    /\ LET separator_location == FindSeparator(s)
       IN  /\ separator_location >= 0
           /\ ParseIsoformatDate(s, separator_location)
           /\ Len(s) > separator_location => ParseIsoformatTime(s, separator_location + 2)

\* lines 161: branch = stdout.strip() or 'main'
BranchName(stdout) == IF Strip(stdout) = <<>> THEN <<"m", "a", "i", "n">> ELSE Strip(stdout)

\* a preparation of the timestamp that leaves a '+' offset in place
CommitDateText_Uncut(stdout) == Replace(Strip(stdout), <<" ">>, <<"T">>)

\* lines 172-176: the text handed to datetime.fromisoformat: the output cut
\* at the first '+', if it has one, and every space replaced by 'T'
CommitDateText(stdout) ==
    LET commit_date == Strip(stdout)
        truncated   == IF Contains(commit_date, <<"+">>)
                       THEN Strip(Split(commit_date, <<"+">>)[1])
                       ELSE commit_date
    IN  Replace(truncated, <<" ">>, <<"T">>)

\* lines 169-179: the last-commit time parsed from the output of
\* `git log -1 --format=%ci`; `day` is the day the printed date denotes
LastCommit(stdout, day) ==
    IF Strip(stdout) = <<>> THEN None
    ELSE IF FromIsoformatAccepts(CommitDateText(stdout))
         THEN Some(day)
         ELSE None

\* lines 186-187: the number of non-blank lines of `git status --porcelain`
Uncommitted(stdout) ==
    IF Strip(stdout) = <<>> THEN 0
    ELSE LET lines == Split(Strip(stdout), <<"\n">>)
         IN  Cardinality({i \in 1..Len(lines) : Strip(lines[i]) # <<>>})

\* lines 189-195: the dict _get_git_info returns on success
GitInfo(branch, last_commit, uncommitted) ==
    [branch        |-> branch,
     last_commit   |-> last_commit,
     uncommitted   |-> uncommitted,
     status        |-> IF uncommitted = 0 THEN "clean" ELSE "dirty",
     remote_status |-> "unknown"]

\* ------------------------------------------------------------------------
\* Language detection: ProjectScanner._detect_languages
\* ------------------------------------------------------------------------
language_extensions ==
    (<<".", "p", "y">> :> "Python") @@ (<<".", "j", "s">> :> "JavaScript") @@ (<<".", "t", "s">> :> "TypeScript")
    @@ (<<".", "g", "o">> :> "Go") @@ (<<".", "r", "s">> :> "Rust") @@ (<<".", "j", "a", "v", "a">> :> "Java")
    @@ (<<".", "c", "p", "p">> :> "C++") @@ (<<".", "c">> :> "C") @@ (<<".", "h", "t", "m", "l">> :> "HTML")
    @@ (<<".", "c", "s", "s">> :> "CSS") @@ (<<".", "v", "u", "e">> :> "Vue") @@ (<<".", "p", "h", "p">> :> "PHP")
    @@ (<<".", "r", "b">> :> "Ruby") @@ (<<".", "s", "w", "i", "f", "t">> :> "Swift") @@ (<<".", "k", "t">> :> "Kotlin")

\* the loop over rglob('*'): `walk` is the traversal, in its order; the result
\* is the languages in the order in which languages.add first inserted them
RECURSIVE DetectLoop(_, _, _)
DetectLoop(walk, i, languages) ==
    IF i > Len(walk) THEN languages
    ELSE LET file_path == walk[i]
         IN  IF file_path.isfile /\ Suffix(file_path.name) \in DOMAIN language_extensions
             THEN LET language == language_extensions[Suffix(file_path.name)]
                      found    == IF \E k \in 1..Len(languages) : languages[k] = language
                                  THEN languages
                                  ELSE Append(languages, language)
                  IN  IF Len(found) >= 5 THEN found
                      ELSE DetectLoop(walk, i + 1, found)
             ELSE DetectLoop(walk, i + 1, languages)

\* the lists list(S) can be: the members of the set S in any order
Orderings(S) ==
    {order \in [1..Cardinality(S) -> S] : \A i, j \in 1..Cardinality(S) : order[i] = order[j] => i = j}

\* line 235, list(languages): the iteration order of a set of strings follows
\* the slots its members took in the hash table; the slots follow the hashes,
\* which the interpreter salts anew in every process, and, where two members
\* collide, the order of insertion.  hash_order holds, for every insertion
\* sequence this process has listed, the order it came out in; a sequence it
\* has not listed yet may come out in any order, whatever other sequences of
\* the same members gave.
ListOfSet(inserted, hash_order) ==
    IF inserted \in DOMAIN hash_order THEN {hash_order[inserted]}
    ELSE Orderings({inserted[k] : k \in 1..Len(inserted)})

\* the lists the call may return
_detect_languages(d, hash_order) == ListOfSet(DetectLoop(d.walk, 1, <<>>), hash_order)

\* the call raises: the traversal fails (d.walk is then what rglob yields
\* before it does) and the loop has not left it at line 232 by then
DetectRaises(d) == ~d.walk_ok /\ Len(DetectLoop(d.walk, 1, <<>>)) < 5

\* ------------------------------------------------------------------------
\* Manifest analyzer: ProjectScanner._check_dependencies
\* ------------------------------------------------------------------------
EmptyDict == [k \in {} |-> 0]

\* dct[key] = value
DictSet(dct, key, value) ==
    [k \in (DOMAIN dct) \cup {key} |-> IF k = key THEN value ELSE dct[k]]

\* lines 239-244
EmptyDepInfo ==
    [has_deps |-> FALSE, languages |-> <<>>, dep_counts |-> EmptyDict, details |-> <<>>]

\* a manifest block that replaces the count table instead of adding to it
AddEcosystem_Overwriting(dep_info, language, key, count, detail) ==
    [has_deps   |-> TRUE,
     languages  |-> Append(dep_info.languages, language),
     dep_counts |-> DictSet(EmptyDict, key, count),
     details    |-> Append(dep_info.details, detail)]

\* the four assignments every manifest block ends with
AddEcosystem(dep_info, language, key, count, detail) ==
    [has_deps   |-> TRUE,
     languages  |-> Append(dep_info.languages, language),
     dep_counts |-> DictSet(dep_info.dep_counts, key, count),
     details    |-> Append(dep_info.details, detail)]

\* a package.json block that marks the result before it reads the file
CheckPackageJson_MarksFirst(d, dep_info) ==
    IF "package.json" \in d.top
    THEN IF d.package_json.ok
         THEN AddEcosystem(dep_info, "Node.js", "npm",
                           d.package_json.deps + d.package_json.dev,
                           <<"npm", d.package_json.deps, d.package_json.dev>>)
         ELSE [dep_info EXCEPT !.has_deps = TRUE,
                               !.languages = Append(@, "Node.js")]
    ELSE dep_info

\* lines 246-260: package.json.  package_json.ok: the file opens and parses
\* to a JSON object; deps and dev are the sizes of its two tables
CheckPackageJson(d, dep_info) ==
    IF "package.json" \in d.top /\ d.package_json.ok
    THEN AddEcosystem(dep_info, "Node.js", "npm",
                      d.package_json.deps + d.package_json.dev,
                      <<"npm", d.package_json.deps, d.package_json.dev>>)
    ELSE dep_info

\* lines 262-274: requirements.txt
CheckRequirements(d, dep_info) ==
    IF "requirements.txt" \in d.top /\ d.requirements.ok
    THEN LET f == d.requirements.lines
             dep_count == Cardinality({i \in 1..Len(f) :
                              Strip(f[i]) # <<>> /\ ~StartsWith(f[i], <<"#">>)})
         IN  AddEcosystem(dep_info, "Python", "pip", dep_count, <<"pip", dep_count>>)
    ELSE dep_info

\* lines 290-309: one iteration of the line scanner; st is
\* [in_poetry_deps, in_dev_deps, poetry_deps, dev_deps]
PoetryStep(st, raw) ==
    LET line == Strip(raw)
        entry == line # <<>> /\ ~StartsWith(line, <<"#">>) /\ Contains(line, <<"=">>)
    IN  IF line = <<"[", "t", "o", "o", "l", ".", "p", "o", "e", "t", "r", "y", ".", "d", "e", "p", "e", "n", "d", "e", "n", "c", "i", "e", "s", "]">>
        THEN [st EXCEPT !.in_poetry_deps = TRUE, !.in_dev_deps = FALSE]
        ELSE IF StartsWith(line, <<"[", "t", "o", "o", "l", ".", "p", "o", "e", "t", "r", "y", ".", "g", "r", "o", "u", "p", ".">>) /\ Contains(line, <<"d", "e", "p", "e", "n", "d", "e", "n", "c", "i", "e", "s", "]">>)
        THEN [st EXCEPT !.in_dev_deps = TRUE, !.in_poetry_deps = FALSE]
        ELSE IF StartsWith(line, <<"[">>)
        THEN [st EXCEPT !.in_poetry_deps = FALSE, !.in_dev_deps = FALSE]
        ELSE IF st.in_poetry_deps /\ entry
        THEN IF ~StartsWith(line, <<"p", "y", "t", "h", "o", "n">>)
             THEN [st EXCEPT !.poetry_deps = @ + 1]
             ELSE st
        ELSE IF st.in_dev_deps /\ entry
        THEN [st EXCEPT !.dev_deps = @ + 1]
        ELSE st

RECURSIVE PoetryScan(_, _, _)
PoetryScan(lines, i, st) ==
    IF i > Len(lines) THEN st ELSE PoetryScan(lines, i + 1, PoetryStep(st, lines[i]))

\* lines 311-317: the inline `dependencies = [` list of a non-Poetry file
InlineDeps(content) ==
    LET deps_start == Find(content, <<"d", "e", "p", "e", "n", "d", "e", "n", "c", "i", "e", "s", " ", "=", " ", "[">>, 1)
        close      == Find(content, <<"]">>, deps_start)
        deps_section == IF close = 0
                        THEN SubSeq(content, deps_start, Len(content) - 1)
                        ELSE SubSeq(content, deps_start, close - 1)
    IN  Count(deps_section, <<"\"">>) \div 2

\* lines 276-329: pyproject.toml
CheckPyproject(d, dep_info) ==
    IF "pyproject.toml" \in d.top /\ d.pyproject.ok
    THEN LET lines   == d.pyproject.lines
             content == Join(lines, <<"\n">>)
             st == PoetryScan(lines, 1, [in_poetry_deps |-> FALSE, in_dev_deps |-> FALSE,
                                         poetry_deps |-> 0, dev_deps |-> 0])
             poetry_deps == IF Contains(content, <<"d", "e", "p", "e", "n", "d", "e", "n", "c", "i", "e", "s", " ", "=", " ", "[">>) /\ st.poetry_deps = 0
                            THEN InlineDeps(content)
                            ELSE st.poetry_deps
             dev_deps == st.dev_deps
         IN  IF poetry_deps > 0 \/ dev_deps > 0
             THEN AddEcosystem(dep_info, "Python", "poetry", poetry_deps + dev_deps,
                               IF dev_deps > 0 THEN <<"poetry", poetry_deps, dev_deps>>
                               ELSE <<"poetry", poetry_deps>>)
             ELSE dep_info
    ELSE dep_info

\* lines 331-343: go.mod
CheckGoMod(d, dep_info) ==
    IF "go.mod" \in d.top /\ d.go_mod.ok
    THEN LET lines == d.go_mod.lines
             dep_count == Cardinality({i \in 1..Len(lines) :
                              /\ Strip(lines[i]) # <<>>
                              /\ ~StartsWith(Strip(lines[i]), <<"m", "o", "d", "u", "l", "e">>)
                              /\ ~StartsWith(Strip(lines[i]), <<"g", "o">>)})
         IN  AddEcosystem(dep_info, "Go", "go", dep_count, <<"go", dep_count>>)
    ELSE dep_info

_check_dependencies(d) ==
    CheckGoMod(d, CheckPyproject(d, CheckRequirements(d, CheckPackageJson(d, EmptyDepInfo))))

\* ------------------------------------------------------------------------
\* Remote identifier: the pure part of ProjectScanner._get_github_repo
\* ------------------------------------------------------------------------
\* lines 360-377: owner/repo parsed from the origin URL, or None
RepoFromUrl(stdout) ==
    LET remote_url == Strip(stdout)
        ssh   == <<"g", "i", "t", "@", "g", "i", "t", "h", "u", "b", ".", "c", "o", "m", ":">>
        https == <<"h", "t", "t", "p", "s", ":", "/", "/", "g", "i", "t", "h", "u", "b", ".", "c", "o", "m", "/">>
        repo_part == IF StartsWith(remote_url, ssh)
                     THEN Replace(Replace(remote_url, ssh, <<>>), <<".", "g", "i", "t">>, <<>>)
                     ELSE Replace(Replace(remote_url, https, <<>>), <<".", "g", "i", "t">>, <<>>)
    IN  IF Contains(remote_url, <<"g", "i", "t", "h", "u", "b", ".", "c", "o", "m">>)
        THEN IF StartsWith(remote_url, ssh) \/ StartsWith(remote_url, https)
             THEN IF Contains(repo_part, <<"/">>) /\ Len(Split(repo_part, <<"/">>)) = 2
                  THEN Some(repo_part)
                  ELSE None
             ELSE None
        ELSE None

\* ------------------------------------------------------------------------
\* Remote metadata fetcher: ProjectScanner._fetch_github_info
\* A request ends "ok" (status 200 and a parseable body), "non200" (a
\* response whose status is not 200) or raises: "error" (network or HTTP
\* error), "timeout", "parse" (the body is not the JSON expected).
\* ------------------------------------------------------------------------
RequestOutcomes == {"ok", "non200", "error", "timeout", "parse"}

Raises(rc) == rc \in {"error", "timeout", "parse"}

\* lines 103-109 and 448-454
DefaultGithubInfo ==
    [stars |-> 0, open_issues |-> 0, open_prs |-> 0, last_activity |-> None,
     workflow_status |-> "unknown"]

\* lines 416-424: updated_at is None or [text, day]
LastActivity(updated_at) ==
    IF updated_at = None THEN None
    ELSE IF FromIsoformatAccepts(Replace(updated_at[1].text, <<"Z">>, <<"+", "0", "0", ":", "0", "0">>))
         THEN Some(updated_at[1].day)
         ELSE None

\* lines 409-414: the dict built from the metadata response
MetaInfo(meta) ==
    [stars |-> meta.stargazers_count, open_issues |-> meta.open_issues_count,
     last_activity |-> LastActivity(meta.updated_at), workflow_status |-> "unknown"]

\* lines 426-440: the pull-request request and what it does to the dict
WithPulls(github_info, meta, pulls) ==
    IF pulls.rc = "ok"
    THEN DictSet(DictSet(github_info, "open_prs", pulls.n),
                 "open_issues", Max(0, meta.open_issues_count - pulls.n))
    ELSE IF Raises(pulls.rc)
    THEN DictSet(DictSet(github_info, "open_prs", 0),
                 "open_issues", meta.open_issues_count)
    ELSE github_info

\* a fetcher that does not look at the status of the metadata response
_fetch_github_info_AnyStatus(remote) ==
    IF remote.meta.rc \in {"ok", "non200"}
    THEN WithPulls(MetaInfo(remote.meta), remote.meta, remote.pulls)
    ELSE DefaultGithubInfo

_fetch_github_info(remote) ==
    IF remote.meta.rc = "ok"
    THEN WithPulls(MetaInfo(remote.meta), remote.meta, remote.pulls)
    ELSE DefaultGithubInfo

\* a fetcher that sends the pull-request request whatever the first answer was
PullsRequested_Always(remote) == TRUE

\* lines 404-431: the pull-request request is sent once the metadata response
\* has status 200 and its body has been parsed
PullsRequested(remote) == remote.meta.rc = "ok"

\* the requests one call of _fetch_github_info sends, in order
Requests(remote) ==
    <<"metadata">> \o (IF PullsRequested(remote) THEN <<"pulls">> ELSE <<>>)

\* ------------------------------------------------------------------------
\* Quality heuristics: ProjectScanner._check_project_quality
\* ------------------------------------------------------------------------
\* lines 458-468
DefaultQualityInfo ==
    [has_readme |-> FALSE, readme_quality |-> 0, has_tests |-> FALSE, test_coverage |-> 0,
     has_ci_cd |-> FALSE, ci_cd_type |-> "none", has_documentation |-> FALSE,
     code_quality_tools |-> 0, project_structure |-> 0]

readme_files == <<"README.md", "README.rst", "README.txt", "readme.md">>

\* lines 481-490
ReadmeTier(len) ==
    IF len > 2000 THEN 5
    ELSE IF len > 1000 THEN 4
    ELSE IF len > 500 THEN 3
    ELSE IF len > 200 THEN 2
    ELSE 1

\* lines 471-493: d.readme[f] is [ok, len] for every README file present
CheckReadme(d, quality_info) ==
    LET present == {i \in 1..Len(readme_files) : readme_files[i] \in d.top}
        first   == CHOOSE i \in present : \A j \in present : i <= j
        file    == d.readme[readme_files[first]]
    IN  IF present = {} THEN quality_info
        ELSE [quality_info EXCEPT !.has_readme = TRUE,
                                  !.readme_quality = IF file.ok THEN ReadmeTier(file.len) ELSE 1]

\* lines 496-500: the directory patterns, without their '/', and the file patterns
test_dirs == <<"test", "tests", "__tests__", "spec">>

test_globs ==
    <<<<"*", "_", "t", "e", "s", "t", ".", "p", "y">>, <<"*", ".", "t", "e", "s", "t", ".", "j", "s">>, <<"*", "_", "t", "e", "s", "t", ".", "j", "s">>, <<"*", "_", "s", "p", "e", "c", ".", "p", "y">>, <<"*", ".", "s", "p", "e", "c", ".", "j", "s">>,
      <<"t", "e", "s", "t", "_", "*", ".", "p", "y">>, <<"t", "e", "s", "t", "*", ".", "p", "y">>>>

\* len(list(project_path.rglob(pattern)))
RglobCount(d, pattern) == Cardinality({i \in 1..Len(d.walk) : Glob(pattern, d.walk[i].name)})

\* lines 502-512
TestCount(d) ==
    Cardinality({i \in 1..Len(test_dirs) : test_dirs[i] \in d.top})
      + SumOver([i \in 1..Len(test_globs) |-> RglobCount(d, test_globs[i])],
                1..Len(test_globs))

\* lines 514-516
CheckTests(d, quality_info) ==
    IF TestCount(d) > 0
    THEN [quality_info EXCEPT !.has_tests = TRUE,
                              !.test_coverage = Min(5, Max(1, TestCount(d) \div 2))]
    ELSE quality_info

\* lines 519-527: each marker as written, and the path it names
ci_files ==
    <<[marker |-> <<".", "g", "i", "t", "h", "u", "b", "/", "w", "o", "r", "k", "f", "l", "o", "w", "s", "/">>, path |-> ".github/workflows"],
      [marker |-> <<".", "g", "i", "t", "l", "a", "b", "-", "c", "i", ".", "y", "m", "l">>,      path |-> ".gitlab-ci.yml"],
      [marker |-> <<".", "t", "r", "a", "v", "i", "s", ".", "y", "m", "l">>,         path |-> ".travis.yml"],
      [marker |-> <<"a", "z", "u", "r", "e", "-", "p", "i", "p", "e", "l", "i", "n", "e", "s", ".", "y", "m", "l">>, path |-> "azure-pipelines.yml"],
      [marker |-> <<"J", "e", "n", "k", "i", "n", "s", "f", "i", "l", "e">>,         path |-> "Jenkinsfile"],
      [marker |-> <<"c", "i", "r", "c", "l", "e", ".", "y", "m", "l">>,          path |-> "circle.yml"],
      [marker |-> <<".", "c", "i", "r", "c", "l", "e", "c", "i", "/">>,          path |-> ".circleci"]>>

\* lines 533-542
CiType(ci_file) ==
    IF Contains(ci_file, <<"g", "i", "t", "h", "u", "b">>) THEN "GitHub Actions"
    ELSE IF Contains(ci_file, <<"g", "i", "t", "l", "a", "b">>) THEN "GitLab CI"
    ELSE IF Contains(ci_file, <<"t", "r", "a", "v", "i", "s">>) THEN "Travis CI"
    ELSE IF Contains(ci_file, <<"a", "z", "u", "r", "e">>) THEN "Azure Pipelines"
    ELSE "Other CI"

\* lines 529-543
CheckCi(d, quality_info) ==
    LET present == {i \in 1..Len(ci_files) : ci_files[i].path \in d.top}
        first   == CHOOSE i \in present : \A j \in present : i <= j
    IN  IF present = {} THEN quality_info
        ELSE [quality_info EXCEPT !.has_ci_cd = TRUE,
                                  !.ci_cd_type = CiType(ci_files[first].marker)]

doc_indicators ==
    {"docs", "doc", "documentation", "wiki", "sphinx", "mkdocs.yml", "docusaurus.config.js"}

\* lines 546-555
CheckDocs(d, quality_info) ==
    IF doc_indicators \cap d.top # {}
    THEN [quality_info EXCEPT !.has_documentation = TRUE]
    ELSE quality_info

quality_files ==
    {".eslintrc", ".eslintrc.js", ".eslintrc.json", ".flake8", "setup.cfg", ".pylintrc",
     ".prettierrc", ".prettierrc.js", ".prettierrc.json", ".pre-commit-config.yaml",
     "mypy.ini", "pyproject.toml", ".editorconfig"}

\* lines 558-572
CheckQualityTools(d, quality_info) ==
    [quality_info EXCEPT !.code_quality_tools = Cardinality(quality_files \cap d.top)]

common_dirs == {"src", "lib", "app", "components", "utils", "config"}

\* a structure score that is not capped
CheckStructure_Uncapped(d, quality_info) ==
    [quality_info EXCEPT !.project_structure =
        Cardinality(common_dirs \cap d.top)
          + (IF "package.json" \in d.top \/ "pyproject.toml" \in d.top THEN 1 ELSE 0)]

\* lines 575-585
CheckStructure(d, quality_info) ==
    LET structure_score ==
            Cardinality(common_dirs \cap d.top)
              + (IF "package.json" \in d.top \/ "pyproject.toml" \in d.top THEN 1 ELSE 0)
    IN  [quality_info EXCEPT !.project_structure = Min(5, structure_score)]

\* lines 470-591.  The tree walk of the test check is the call that can
\* raise (d.walk_ok is false): the except clause then returns the dict as
\* the checks before it left it.
_check_project_quality(d) ==
    LET after_readme == CheckReadme(d, DefaultQualityInfo)
    IN  IF ~d.walk_ok THEN after_readme
        ELSE CheckStructure(d,
               CheckQualityTools(d,
                 CheckDocs(d,
                   CheckCi(d,
                     CheckTests(d, after_readme)))))

\* ------------------------------------------------------------------------
\* The scanned tree.  A tree is
\*   root, children   the kind of the scan root and of each entry iterdir
\*                    yields of it: the entries put into it, then the root's
\*                    own subdirectories
\*   start_enterable  whether the process can chdir back to where it started
\*   start_removed    whether that directory was removed after the process
\*                    entered it: os.getcwd() raises while the process is there
\*   base_relative    whether base_path was given relative to that directory
\*   access           what the file system allows on the scan root
\*   calls            how often the caller calls scan_projects on the scanner
\* A directory is described by what the code reads of it:
\*   name, isdir   the entry's basename and whether it is a directory
\*   top           the paths the code looks for that exist directly below it
\*   subdirs       the directories directly below it whose names do not
\*                 start with '.', each with its name, top, walk and walk_ok
\*   walk, walk_ok the entries rglob yields under it, in order, and whether
\*                 the traversal completes: rglob yields the entries of the
\*                 directory, then those of each directory below it, and
\*                 raises where a directory cannot be scanned for a reason
\*                 other than permission.  The entries below .git and
\*                 .github are left out: none is a file the code counts
\*   readme        [ok, len] of every README file in top (ok: it can be read)
\*   package_json, requirements, pyproject, go_mod
\*                 the manifests' contents (ok: the file reads and parses)
\*   vcs, origin   return state and output of the four git commands
\*   remote        outcome and body of the two API requests
\* ------------------------------------------------------------------------
CommandOutcomes == {"ok", "nonzero", "timeout", "error"}

HealthyVcs ==
    [branch |-> [rc |-> "ok", out |-> <<"m", "a", "i", "n", "\n">>],
     log    |-> [rc |-> "ok", out |-> <<"2", "0", "2", "4", "-", "0", "5", "-", "0", "1", " ", "1", "0", ":", "0", "0", ":", "0", "0", " ", "+", "0", "2", "0", "0", "\n">>, day |-> Today - 3],
     status |-> [rc |-> "ok", out |-> <<>>]]

NoRemote ==
    [meta  |-> [rc |-> "error", stargazers_count |-> 0, open_issues_count |-> 0,
                updated_at |-> None],
     pulls |-> [rc |-> "error", n |-> 0]]

NoOrigin == [rc |-> "nonzero", out |-> <<>>]

\* `git remote get-url origin` naming a repository on GitHub
GithubOrigin == [rc |-> "ok", out |-> <<"h", "t", "t", "p", "s", ":", "/", "/", "g", "i", "t", "h", "u", "b", ".", "c", "o", "m", "/", "o", "w", "n", "/", "r", "e", "p", "o", ".", "g", "i", "t", "\n">>]

\* the answers of the API, by the outcome of the two requests
RemoteAnswers(meta_rc, pulls_rc) ==
    [meta  |-> [rc |-> meta_rc, stargazers_count |-> 150,
                open_issues_count |-> 30,
                updated_at |-> Some([text |-> <<"2", "0", "2", "4", "-", "0", "5", "-", "0", "1", "T", "1", "0", ":", "0", "0", ":", "0", "0", "Z">>,
                                     day |-> Today - 2])],
     pulls |-> [rc |-> pulls_rc, n |-> 10]]

\* a directory that is not a repository, inside the work tree of an enclosing
\* one whose origin is on GitHub: the git commands run in it succeed
PlainDir ==
    [name |-> <<"p">>, isdir |-> TRUE, top |-> {"README.md"}, subdirs |-> <<>>,
     walk |-> <<[name |-> <<"R", "E", "A", "D", "M", "E", ".", "m", "d">>, isfile |-> TRUE]>>, walk_ok |-> TRUE,
     readme |-> ("README.md" :> [ok |-> TRUE, len |-> 100]),
     package_json |-> [ok |-> FALSE, deps |-> 0, dev |-> 0],
     requirements |-> [ok |-> FALSE, lines |-> <<>>],
     pyproject    |-> [ok |-> FALSE, lines |-> <<>>],
     go_mod       |-> [ok |-> FALSE, lines |-> <<>>],
     vcs |-> HealthyVcs,
     origin |-> GithubOrigin,
     remote |-> RemoteAnswers("ok", "ok")]

\* a directory that is not a repository and holds one a level further down
NestDir ==
    [PlainDir EXCEPT !.name = <<"o", "u", "t", "e", "r">>, !.top = {"inner", "inner/.git"},
                     !.subdirs = <<[name |-> <<"i", "n", "n", "e", "r">>, top |-> {".git"},
                                    walk |-> <<[name |-> <<".", "g", "i", "t">>, isfile |-> FALSE]>>,
                                    walk_ok |-> TRUE]>>,
                     !.walk = <<[name |-> <<"i", "n", "n", "e", "r">>, isfile |-> FALSE],
                                [name |-> <<".", "g", "i", "t">>, isfile |-> FALSE]>>,
                     !.readme = EmptyDict]

\* a regular file among the root's entries
PlainFile == [PlainDir EXCEPT !.name = <<"f">>, !.isdir = FALSE, !.top = {}, !.walk = <<>>,
                              !.readme = EmptyDict]

\* a repository with nothing but 75 modified files and a commit 400 days old
StaleRepo ==
    [PlainDir EXCEPT !.name = <<"s", "t", "a", "l", "e">>, !.top = {".git"}, !.walk = <<>>,
                     !.readme = EmptyDict, !.origin = NoOrigin, !.remote = NoRemote,
                     !.vcs = [HealthyVcs EXCEPT !.log.day = Today - 400,
                                                !.status.out = Repeat(<<" ", "M", " ", "f", "\n">>, 75)]]

\* four test files under tests/: names that match two patterns, one pattern
\* and three patterns each, or a mix of them
TestFiles(naming) ==
    CASE naming = "prefix" -> <<<<"t", "e", "s", "t", "_", "a", ".", "p", "y">>, <<"t", "e", "s", "t", "_", "b", ".", "p", "y">>, <<"t", "e", "s", "t", "_", "c", ".", "p", "y">>, <<"t", "e", "s", "t", "_", "d", ".", "p", "y">>>>
      [] naming = "suffix" -> <<<<"a", "_", "t", "e", "s", "t", ".", "p", "y">>, <<"b", "_", "t", "e", "s", "t", ".", "p", "y">>, <<"c", ".", "t", "e", "s", "t", ".", "j", "s">>, <<"d", ".", "s", "p", "e", "c", ".", "j", "s">>>>
      [] naming = "both"   -> <<<<"t", "e", "s", "t", "_", "a", "_", "t", "e", "s", "t", ".", "p", "y">>, <<"t", "e", "s", "t", "_", "b", "_", "t", "e", "s", "t", ".", "p", "y">>, <<"t", "e", "s", "t", "_", "c", "_", "s", "p", "e", "c", ".", "p", "y">>,
                               <<"t", "e", "s", "t", "_", "d", "_", "s", "p", "e", "c", ".", "p", "y">>>>
      [] naming = "mixed"  -> <<<<"t", "e", "s", "t", "_", "c", "o", "r", "e", ".", "p", "y">>, <<"t", "e", "s", "t", "_", "a", "p", "i", ".", "p", "y">>, <<"u", "t", "i", "l", "_", "t", "e", "s", "t", ".", "p", "y">>,
                               <<"a", "p", "p", ".", "t", "e", "s", "t", ".", "j", "s">>>>

\* the directory tests/ holding the four files
TestsDir(naming) ==
    [name |-> <<"t", "e", "s", "t", "s">>, top |-> {},
     walk |-> [i \in 1..4 |-> [name |-> TestFiles(naming)[i], isfile |-> TRUE]],
     walk_ok |-> TRUE]

\* a clean, recently committed repository with README, tests, CI and a
\* requirements.txt of 12 requirements
FreshRepo ==
    [PlainDir EXCEPT
       !.name = <<"f", "r", "e", "s", "h">>,
       !.top = {".git", "README.md", "tests", ".github/workflows", "requirements.txt"},
       !.subdirs = <<TestsDir("mixed")>>,
       !.walk = <<[name |-> <<"R", "E", "A", "D", "M", "E", ".", "m", "d">>, isfile |-> TRUE],
                  [name |-> <<"r", "e", "q", "u", "i", "r", "e", "m", "e", "n", "t", "s", ".", "t", "x", "t">>, isfile |-> TRUE],
                  [name |-> <<"t", "e", "s", "t", "s">>, isfile |-> FALSE]>>
                \o TestsDir("mixed").walk,
       !.readme = ("README.md" :> [ok |-> TRUE, len |-> 2500]),
       !.requirements = [ok |-> TRUE, lines |-> [i \in 1..12 |-> <<"r", "e", "q", "u", "e", "s", "t", "s", "=", "=", "2", ".", "0">>]],
       !.vcs = HealthyVcs, !.origin = NoOrigin, !.remote = NoRemote]

\* the same repository with other test files and the other CI marker directory
FreshRepoWith(naming) ==
    [FreshRepo EXCEPT
       !.top = {".git", "README.md", "tests", ".circleci", "requirements.txt"},
       !.subdirs = <<TestsDir(naming)>>,
       !.walk = <<[name |-> <<"R", "E", "A", "D", "M", "E", ".", "m", "d">>, isfile |-> TRUE],
                  [name |-> <<"r", "e", "q", "u", "i", "r", "e", "m", "e", "n", "t", "s", ".", "t", "x", "t">>, isfile |-> TRUE],
                  [name |-> <<"t", "e", "s", "t", "s">>, isfile |-> FALSE]>>
                \o TestsDir(naming).walk,
       !.requirements = [ok |-> TRUE,
                         lines |-> <<<<"#", " ", "p", "i", "n", "n", "e", "d">>, <<>>>> \o [i \in 1..12 |-> <<"r", "e", "q", "u", "e", "s", "t", "s", "=", "=", "2", ".", "0">>]]]

\* the stale repository holding the first n of six source files, each of
\* another language, and a directory zz_deep that rglob lists and then fails
\* to scan (its path is too long)
WalkFailureRepo(n) ==
    LET LanguageFiles ==
            <<<<"a", ".", "p", "y">>, <<"b", ".", "j", "s">>, <<"c", ".", "t", "s">>,
              <<"d", ".", "g", "o">>, <<"e", ".", "r", "s">>, <<"f", ".", "j", "a", "v", "a">>>>
    IN  [StaleRepo EXCEPT
           !.name = <<"w">>,
           !.top = {".git", "zz_deep"},
           !.subdirs = <<[name |-> <<"z", "z", "_", "d", "e", "e", "p">>, top |-> {},
                          walk |-> <<>>, walk_ok |-> FALSE]>>,
           !.walk = [i \in 1..n |-> [name |-> LanguageFiles[i], isfile |-> TRUE]]
                      \o <<[name |-> <<"z", "z", "_", "d", "e", "e", "p">>, isfile |-> FALSE]>>,
           !.walk_ok = FALSE]

\* a healthy repository whose directory name starts with '.'
HiddenRepo == [StaleRepo EXCEPT !.name = <<".", "h">>, !.vcs = HealthyVcs]

\* repositories with an origin on GitHub in which one git command fails while
\* the other two succeed
VcsFailure(op, rc) ==
    [FreshRepo EXCEPT !.name = <<"v">>, !.vcs[op].rc = rc,
                      !.origin = GithubOrigin, !.remote = RemoteAnswers("ok", "ok"),
                      !.vcs.status.out = <<" ", "M", " ", "a", "\n", "?", "?", " ", "b", "\n">>]

VcsFailureRepos ==
    {VcsFailure(op, rc) : op \in {"branch", "log", "status"},
                          rc \in CommandOutcomes \ {"ok"}}

\* repositories whose origin is on GitHub, by the outcome of the two requests
RemoteRepo(meta_rc, pulls_rc) ==
    [StaleRepo EXCEPT
       !.name = <<"r">>,
       !.vcs = HealthyVcs,
       !.origin = GithubOrigin,
       !.remote = RemoteAnswers(meta_rc, pulls_rc)]

RemoteRepos ==
    {RemoteRepo("ok", rc) : rc \in RequestOutcomes}
      \cup {RemoteRepo(rc, "ok") : rc \in RequestOutcomes}

\* the same repository with the origin removed: remote enrichment disabled
NoOriginRepo == [RemoteRepo("ok", "ok") EXCEPT !.name = <<"n">>,
                                               !.origin = NoOrigin]

\* What the file system allows on the scan root:
\*   "ok"          a directory that can be searched and listed
\*   "missing"     no such path
\*   "notdir"      a regular file
\*   "unsearchable"  a directory without search permission: stat of a path
\*                  below it fails with EACCES
\*   "unlistable"  a directory that can be searched but not read
RootAccess == {"ok", "missing", "notdir", "unsearchable", "unlistable"}

\* line 58: Path.exists() returns False on ENOENT and ENOTDIR and raises
\* every other OSError
ExistsRaises(access) == access = "unsearchable"

\* whether a path below the root can be reached at all
Reachable(access) == access \in {"ok", "unlistable"}

\* an enumeration that yields nothing where it cannot list the root
IterdirRaises_Never(access) == FALSE

\* line 68: the first step of iterdir() raises unless the root can be listed
IterdirRaises(access) == access # "ok"

\* the origin addresses of the repositories scanned: the two supported forms,
\* addresses of the supported prefixes with a part missing, and other addresses
OriginUrls ==
    <<<<"g", "i", "t", "@", "g", "i", "t", "h", "u", "b", ".", "c", "o", "m", ":", "o", "w", "n", "/", "r", "e", "p", "o", ".", "g", "i", "t", "\n">>,
      <<"h", "t", "t", "p", "s", ":", "/", "/", "g", "i", "t", "h", "u", "b", ".", "c", "o", "m", "/", "o", "w", "n", "/", "r", "e", "p", "o", "\n">>,
      <<"h", "t", "t", "p", "s", ":", "/", "/", "g", "i", "t", "h", "u", "b", ".", "c", "o", "m", "/", "o", "w", "n", "/", "\n">>,
      <<"g", "i", "t", "@", "g", "i", "t", "h", "u", "b", ".", "c", "o", "m", ":", "/", "r", "e", "p", "o", ".", "g", "i", "t", "\n">>,
      <<"h", "t", "t", "p", "s", ":", "/", "/", "g", "i", "t", "l", "a", "b", ".", "c", "o", "m", "/", "o", "w", "n", "/", "r", "e", "p", "o", ".", "g", "i", "t", "\n">>,
      <<"h", "t", "t", "p", ":", "/", "/", "g", "i", "t", "h", "u", "b", ".", "c", "o", "m", "/", "o", "w", "n", "/", "r", "e", "p", "o", "\n">>,
      <<"h", "t", "t", "p", "s", ":", "/", "/", "g", "i", "t", "h", "u", "b", ".", "c", "o", "m", "/", "o", "w", "n", "/", "r", "e", "p", "o", "/", "s", "u", "b", "\n">>,
      <<"h", "t", "t", "p", "s", ":", "/", "/", "g", "i", "t", "h", "u", "b", ".", "c", "o", "m", "/", "o", "w", "n", "\n">>,
      <<"s", "s", "h", ":", "/", "/", "g", "i", "t", "@", "g", "i", "t", "h", "u", "b", ".", "c", "o", "m", "/", "o", "w", "n", "/", "r", "e", "p", "o", ".", "g", "i", "t", "\n">>,
      <<"h", "t", "t", "p", "s", ":", "/", "/", "g", "i", "t", "h", "u", "b", ".", "c", "o", "m", "/", "o", "w", "n", "/", "r", "e", "p", "o", ".", "g", "i", "t", "/", "\n">>>>

\* a repository whose origin is the given address, the API answering
OriginRepo(i) ==
    [RemoteRepo("ok", "ok") EXCEPT !.name = <<"o">>, !.origin.out = OriginUrls[i]]

\* outputs of `git log -1 --format=%ci`: timestamps with a positive and with
\* a negative UTC offset, and outputs that are not timestamps
LogOutputs ==
    <<<<"2", "0", "2", "4", "-", "0", "5", "-", "0", "1", " ", "1", "0", ":", "0", "0", ":", "0", "0", " ", "+", "0", "2", "0", "0", "\n">>,
      <<"2", "0", "2", "4", "-", "0", "5", "-", "0", "1", " ", "1", "0", ":", "0", "0", ":", "0", "0", " ", "-", "0", "5", "0", "0", "\n">>,
      <<"2", "0", "2", "4", "-", "0", "5", "-", "0", "1", " ", "2", "3", ":", "5", "9", ":", "5", "9", " ", "+", "0", "0", "0", "0", "\n">>,
      <<"2", "0", "2", "4", "-", "0", "5", "-", "0", "1", " ", "1", "0", ":", "0", "0", ":", "0", "0", " ", "-", "0", "3", "3", "0", "\n">>,
      <<"2", "0", "2", "4", "-", "0", "5", "-", "0", "1", " ", "1", "0", ":", "0", "0", ":", "0", "0", " ", "+", "1", "2", "4", "5", "\n">>,
      <<"n", "o", "t", " ", "a", " ", "d", "a", "t", "e", "\n">>,
      <<"M", "a", "y", " ", "1", " ", "1", "0", ":", "0", "0", ":", "0", "0", " ", "2", "0", "2", "4", " ", "-", "0", "5", "0", "0", "\n">>,
      <<"2", "0", "2", "4", "-", "0", "5", "-", "0", "1", " ", "1", "0", ":", "0", "0", ":", "0", "0", " ", "-", "0", "5", "0", "\n">>>>

\* a repository with two uncommitted changes whose last commit, 400 days old,
\* is printed as the given output
LogRepo(i) ==
    [StaleRepo EXCEPT !.name = <<"l">>,
                      !.vcs = [HealthyVcs EXCEPT
                                 !.log.out = LogOutputs[i],
                                 !.log.day = Today - 400,
                                 !.status.out = <<" ", "M", " ", "a", "\n", "?", "?", " ", "b", "\n">>]]

\* A tree names its directories by kind; KindDir gives the directory of a kind.
RepoKinds ==
    {<<"stale">>, <<"fresh">>, <<"no_origin">>}
      \cup {<<"fresh", naming>> : naming \in {"prefix", "suffix", "both"}}
      \cup {<<"vcs", op, rc>> : op \in {"branch", "log", "status"},
                                rc \in CommandOutcomes \ {"ok"}}
      \cup {<<"remote", "ok", rc>> : rc \in RequestOutcomes}
      \cup {<<"remote", rc, "ok">> : rc \in RequestOutcomes}
      \cup {<<"origin", i>> : i \in 1..Len(OriginUrls)}
      \cup {<<"log", i>> : i \in 1..Len(LogOutputs)}
      \cup {<<"walk", n>> : n \in {0, 2, 4, 5, 6}}

\* the kinds of the entries of a scan root in a walk
ChildKinds ==
    {<<"plain">>, <<"file">>, <<"hidden">>, <<"nest">>, <<"stale">>, <<"fresh">>,
     <<"vcs", "branch", "timeout">>, <<"vcs", "status", "nonzero">>,
     <<"remote", "ok", "ok">>, <<"remote", "ok", "non200">>}

RootKinds ==
    {<<"plain">>, <<"stale">>, <<"vcs", "log", "timeout">>, <<"remote", "ok", "non200">>,
     <<"remote", "error", "ok">>}

KindDir(kind) ==
    CASE kind[1] = "plain"     -> PlainDir
      [] kind[1] = "file"      -> PlainFile
      [] kind[1] = "nest"      -> NestDir
      [] kind[1] = "stale"     -> StaleRepo
      [] kind[1] = "fresh"     -> IF Len(kind) = 1 THEN FreshRepo ELSE FreshRepoWith(kind[2])
      [] kind[1] = "hidden"    -> HiddenRepo
      [] kind[1] = "no_origin" -> NoOriginRepo
      [] kind[1] = "vcs"       -> VcsFailure(kind[2], kind[3])
      [] kind[1] = "remote"    -> RemoteRepo(kind[2], kind[3])
      [] kind[1] = "origin"    -> OriginRepo(kind[2])
      [] kind[1] = "log"       -> LogRepo(kind[2])
      [] kind[1] = "walk"      -> WalkFailureRepo(kind[2])

\* the entries of a root: the given ones, then one of kind <<"own", k>> for
\* the k-th subdirectory of the root's kind
Listing(root, entries) ==
    entries \o [k \in 1..Len(KindDir(root).subdirs) |-> <<"own", k>>]

\* how the process was started: from a directory it can re-enter, with
\* base_path absolute (a relative one is then walked the same way), from
\* one it cannot re-enter (a directory above it has lost search permission),
\* with base_path absolute or relative, or from one that has been removed
\* since (a relative base_path, which can only lead through '..', is then
\* walked as the absolute one)
Starts ==
    {[enterable |-> TRUE, removed |-> FALSE, relative |-> FALSE],
     [enterable |-> FALSE, removed |-> FALSE, relative |-> FALSE],
     [enterable |-> FALSE, removed |-> FALSE, relative |-> TRUE],
     [enterable |-> FALSE, removed |-> TRUE, relative |-> FALSE]}

TreesOf(roots, entries, starts, accesses, calls) ==
    {[root |-> r, children |-> Listing(r, c), start_enterable |-> st.enterable,
      start_removed |-> st.removed, base_relative |-> st.relative, access |-> a, calls |-> n] :
        r \in roots, c \in entries, st \in starts, a \in accesses, n \in calls}

\* the trees walked: a root and up to MaxChildren entries put into it
Trees ==
    TreesOf(RootKinds, UNION {[1..n -> ChildKinds] : n \in 0..MaxChildren}, Starts, {"ok"}, {1})

\* the trees of repositories in which a git command may fail
VcsTrees ==
    LET VcsKinds == {<<"stale">>} \cup {kind \in RepoKinds : kind[1] = "vcs"}
    IN  TreesOf({<<"plain">>, <<"vcs", "status", "timeout">>},
                UNION {[1..n -> VcsKinds] : n \in 0..MaxChildren}, Starts, {"ok"}, {1})

\* the trees whose root may be broken
BrokenRootTrees ==
    TreesOf({<<"plain">>, <<"stale">>},
            UNION {[1..n -> {<<"plain">>, <<"stale">>, <<"vcs", "status", "nonzero">>}] :
                      n \in 0..MaxChildren},
            Starts, RootAccess, {1})

\* the trees that are one directory: a root of any kind, nothing put into it
SingleProjects ==
    TreesOf(RepoKinds \cup {<<"plain">>}, {<<>>}, Starts, {"ok"}, {1})

\* ------------------------------------------------------------------------
\* State
\* ------------------------------------------------------------------------
VARIABLES
    fs,            \* the scanned tree and whether the start directory can be re-entered
    pc,            \* the statement the scanner is at
    scans,         \* scan_projects calls started so far
    idx,           \* position of the iterdir loop of scan_projects
    cur,           \* project_path of the running _analyze_project: 0 root, i the i-th child
    cwd,           \* the process's working directory
    original_cwd,  \* local of _get_git_info and _get_github_repo
    branch,        \* locals of _get_git_info
    last_commit,
    git_info,      \* locals of _analyze_project
    languages,
    dep_info,
    github_repo,
    github_info,
    quality_info,
    health_score,
    health,        \* the value _analyze_project returns
    projects,      \* self.projects
    visited,       \* history: the directories _analyze_project was called on
    args,          \* arguments and result of a direct call of
    result,        \*   one of the signal sources
    hash_order,    \* the order in which this process lists the insertion sequences it has listed
    previous,      \* the records an earlier process returned for the same tree
    events         \* history: the stages run and the requests sent, in order

locals == <<original_cwd, branch, last_commit, git_info, languages, dep_info,
            github_repo, github_info, quality_info, health_score>>

vars == <<fs, pc, scans, idx, cur, cwd, health, projects, visited, args, result, locals,
          hash_order, previous, events>>

\* the working directory the process starts in
StartDir == <<"start">>

\* project_path: base_path for 0, base_path / name for the i-th entry; also
\* the place the path names when it is resolved from StartDir
Path(i) == IF i = 0 THEN <<"base">> ELSE <<"base", i>>

\* the i-th entry of the root: a subdirectory of the root's own, or the
\* directory of its kind, whose name is made unique by its position
Entry(i) ==
    LET DigitChar == <<"1", "2", "3", "4", "5", "6", "7", "8", "9">>
        Of(kind, d) ==
            IF kind[1] = "own"
            THEN LET sub == d.subdirs[kind[2]]
                 IN  [PlainDir EXCEPT !.name = sub.name, !.top = sub.top, !.walk = sub.walk,
                                      !.walk_ok = sub.walk_ok, !.readme = EmptyDict]
            ELSE [d EXCEPT !.name = @ \o <<DigitChar[i]>>]
    IN  Of(fs.children[i],
           KindDir(IF fs.children[i][1] = "own" THEN fs.root ELSE fs.children[i]))

\* what rglob yields of the entries of the root, from the i-th on:
\*   names  the entries put into the root themselves
\*   below  what is under each entry, in listing order, up to the first whose
\*          traversal fails
\*   ok     whether the traversal of every entry completes
RECURSIVE EntriesWalk(_)
EntriesWalk(i) ==
    IF i > Len(fs.children) THEN [names |-> <<>>, below |-> <<>>, ok |-> TRUE]
    ELSE LET Then(entry, rest) ==
                 [names |-> (IF fs.children[i][1] = "own" THEN <<>>
                             ELSE <<[name |-> entry.name, isfile |-> ~entry.isdir]>>)
                              \o rest.names,
                  below |-> entry.walk \o (IF entry.walk_ok THEN rest.below ELSE <<>>),
                  ok    |-> entry.walk_ok /\ rest.ok]
         IN  Then(Entry(i), EntriesWalk(i + 1))

\* the directory at the place Path(i): the root holds what its kind holds and
\* its entries.  rglob yields all entries of the root (those put into it,
\* then those of its kind: the kind's walk without what is under its
\* subdirectories) before what is under any of them, and nothing of a root
\* it has no permission to list
Dir(i) ==
    LET Root(kind, entries) ==
            LET below == SumOver([k \in 1..Len(kind.subdirs) |-> Len(kind.subdirs[k].walk)],
                                 1..Len(kind.subdirs))
            IN  [kind EXCEPT
                   !.name = <<"b", "a", "s", "e">>,
                   !.walk = IF fs.access = "unlistable" THEN <<>>
                            ELSE entries.names \o SubSeq(@, 1, Len(@) - below)
                                   \o entries.below,
                   !.walk_ok = fs.access = "unlistable" \/ entries.ok]
    IN  IF i = 0 THEN Root(KindDir(fs.root), EntriesWalk(1)) ELSE Entry(i)

\* whether project paths lead anywhere: a relative base_path is resolved
\* against the working directory at every use, and names nothing from
\* inside the tree
Resolves == ~fs.base_relative \/ cwd = StartDir

\* what the code finds at project_path now: the directory there, or what it
\* finds at a path that names nothing (exists() and is_dir() False, nothing
\* to read or to walk)
Seen(i) ==
    LET Missing == [PlainDir EXCEPT !.isdir = FALSE, !.top = {}, !.walk = <<>>,
                                    !.readme = EmptyDict]
        Found(d) == IF Resolves THEN d ELSE [Missing EXCEPT !.name = d.name]
    IN  Found(Dir(i))

\* os.chdir(target) succeeds
Enterable(target) == target # StartDir \/ fs.start_enterable

\* os.getcwd() raises FileNotFoundError: the working directory is gone
GetcwdRaises == cwd = StartDir /\ fs.start_removed

NoArgs == [git_info |-> GitInfo(<<>>, None, 0), dep_info |-> EmptyDepInfo,
           github_info |-> None, quality_info |-> None]

FreshLocals ==
    /\ original_cwd = StartDir
    /\ branch = <<>>
    /\ last_commit = None
    /\ git_info = None
    /\ languages = <<>>
    /\ dep_info = EmptyDepInfo
    /\ github_repo = None
    /\ github_info = DefaultGithubInfo
    /\ quality_info = DefaultQualityInfo
    /\ health_score = 0

\* ProjectScanner.__init__ on the root of a tree, in a process whose working
\* directory is StartDir
InitOn(trees) ==
    /\ fs \in trees
    /\ pc = "idle"
    /\ scans = 0
    /\ idx = 0
    /\ cur = 0
    /\ cwd = StartDir
    /\ health = None
    /\ projects = <<>>
    /\ visited = <<>>
    /\ args = NoArgs
    /\ result = 0
    /\ hash_order = EmptyDict
    /\ previous = None
    /\ events = <<>>
    /\ FreshLocals

Init == InitOn(Trees)

InitProject == InitOn(SingleProjects)

InitVcs == InitOn(VcsTrees)

InitRoot == InitOn(BrokenRootTrees)

\* an entry of the history
Event(stage, dir) == [stage |-> stage, dir |-> dir]

\* a check of the repository metadata that admits every directory
HasGit_Always(d) == TRUE

\* (project_path / '.git').exists()
HasGit(d) == ".git" \in d.top

\* the frame of _analyze_project is dropped when it returns
DropLocals ==
    /\ original_cwd' = StartDir
    /\ branch' = <<>>
    /\ last_commit' = None
    /\ git_info' = None
    /\ languages' = <<>>
    /\ dep_info' = EmptyDepInfo
    /\ github_repo' = None
    /\ github_info' = DefaultGithubInfo
    /\ quality_info' = DefaultQualityInfo
    /\ health_score' = 0

\* ------------------------------------------------------------------------
\* Repository walker: ProjectScanner.scan_projects
\* ------------------------------------------------------------------------
\* lines 53-60: the call, and the check of the root itself
ScanStart ==
    /\ pc = "idle"
    /\ scans < fs.calls
    /\ scans' = scans + 1
    /\ IF ExistsRaises(fs.access)
       THEN pc' = "raised" /\ cur' = cur /\ idx' = 0
              /\ events' = Append(events, Event("raise_exists", 0))
       ELSE /\ events' = events
            /\ IF Reachable(fs.access) /\ HasGit(Seen(0))
               THEN pc' = "analyze" /\ cur' = 0 /\ idx' = 0
               ELSE pc' = "iter" /\ cur' = cur /\ idx' = 1
    /\ UNCHANGED <<fs, hash_order, previous, cwd, health, projects, visited, args, result, locals>>

\* lines 68-71 and 80: the loop head; iterdir() lists the root at the first
\* step and raises where it cannot; is_dir() looks at every entry from the
\* working directory of that moment; leaving the loop returns self.projects
Iterate ==
    /\ pc = "iter"
    /\ IF IterdirRaises(fs.access) \/ (idx = 1 /\ ~Resolves)
       THEN pc' = "raised" /\ events' = Append(events, Event("raise_iterdir", 0))
              /\ UNCHANGED <<idx, cur>>
       ELSE /\ events' = events
            /\ IF idx > Len(fs.children)
               THEN pc' = "idle" /\ UNCHANGED <<idx, cur>>
               ELSE IF Seen(idx).isdir /\ ~StartsWith(Seen(idx).name, <<".">>)
               THEN pc' = "analyze" /\ cur' = idx /\ UNCHANGED idx
               ELSE pc' = "iter" /\ idx' = idx + 1 /\ UNCHANGED cur
    /\ UNCHANGED <<fs, hash_order, previous, scans, cwd, health, projects, visited, args, result, locals>>

\* lines 61-65 and 72-78: back in the walker with the value _analyze_project returned
Return ==
    /\ pc = "return"
    /\ projects' = IF health # None THEN Append(projects, health[1]) ELSE projects
    /\ health' = None
    /\ idx' = idx + 1
    /\ pc' = "iter"
    /\ DropLocals
    /\ UNCHANGED <<fs, hash_order, previous, events, scans, cur, cwd, visited, args, result>>

\* ------------------------------------------------------------------------
\* ProjectScanner._analyze_project, statement by statement
\* ------------------------------------------------------------------------
\* lines 82-87
AnalyzeEnter ==
    /\ pc = "analyze"
    /\ visited' = Append(visited, cur)
    /\ IF ~HasGit(Seen(cur))
       THEN pc' = "return" /\ health' = None
       ELSE pc' = "git_enter" /\ UNCHANGED health
    /\ UNCHANGED <<fs, hash_order, previous, events, scans, idx, cur, cwd, projects, args, result, locals>>

\* lines 152-154 of _get_git_info; the path resolves, as it did at line 86.
\* os.getcwd() at line 152 is outside the try block: where it raises, the
\* error leaves _get_git_info and is caught at line 146
GitEnter ==
    /\ pc = "git_enter"
    /\ IF GetcwdRaises
       THEN /\ pc' = "return" /\ health' = None
            /\ UNCHANGED <<cwd, original_cwd>>
       ELSE /\ original_cwd' = cwd
            /\ cwd' = Path(cur)
            /\ pc' = "git_branch" /\ UNCHANGED health
    /\ events' = Append(events, Event("vcs", cur))
    /\ UNCHANGED <<fs, hash_order, previous, scans, idx, cur, projects, visited, args, result,
                   branch, last_commit, git_info, languages, dep_info, github_repo,
                   github_info, quality_info, health_score>>

\* lines 156-161: git branch --show-current
GitBranch ==
    /\ pc = "git_branch"
    /\ LET run == Dir(cur).vcs.branch
       IN  IF run.rc = "ok"
           THEN branch' = BranchName(run.out) /\ pc' = "git_log"
           ELSE branch' = branch /\ pc' = "git_exit"
    /\ UNCHANGED <<fs, hash_order, previous, events, scans, idx, cur, cwd, health, projects, visited, args, result,
                   original_cwd, last_commit, git_info, languages, dep_info, github_repo,
                   github_info, quality_info, health_score>>

\* lines 163-179: git log -1 --format=%ci
GitLog ==
    /\ pc = "git_log"
    /\ LET run == Dir(cur).vcs.log
       IN  IF run.rc = "ok"
           THEN last_commit' = LastCommit(run.out, run.day) /\ pc' = "git_status"
           ELSE last_commit' = last_commit /\ pc' = "git_exit"
    /\ UNCHANGED <<fs, hash_order, previous, events, scans, idx, cur, cwd, health, projects, visited, args, result,
                   original_cwd, branch, git_info, languages, dep_info, github_repo,
                   github_info, quality_info, health_score>>

\* an inspector that does not look at the exit status of git status
GitStatus_IgnoresExit ==
    /\ pc = "git_status"
    /\ LET run == Dir(cur).vcs.status
       IN  IF run.rc \in {"ok", "nonzero"}
           THEN git_info' = Some(GitInfo(branch, last_commit, Uncommitted(run.out)))
           ELSE git_info' = None
    /\ pc' = "git_exit"
    /\ UNCHANGED <<fs, hash_order, previous, events, scans, idx, cur, cwd, health, projects, visited, args, result,
                   original_cwd, branch, last_commit, languages, dep_info, github_repo,
                   github_info, quality_info, health_score>>

\* lines 181-195: git status --porcelain, and the dict returned on success
GitStatus ==
    /\ pc = "git_status"
    /\ LET run == Dir(cur).vcs.status
       IN  IF run.rc = "ok"
           THEN git_info' = Some(GitInfo(branch, last_commit, Uncommitted(run.out)))
           ELSE git_info' = None
    /\ pc' = "git_exit"
    /\ UNCHANGED <<fs, hash_order, previous, events, scans, idx, cur, cwd, health, projects, visited, args, result,
                   original_cwd, branch, last_commit, languages, dep_info, github_repo,
                   github_info, quality_info, health_score>>

\* lines 201-206, the finally clause: os.chdir(original_cwd), its failure ignored
RestoreCwd == IF Enterable(original_cwd) THEN original_cwd ELSE cwd

GitExit ==
    /\ pc = "git_exit"
    /\ cwd' = RestoreCwd
    /\ pc' = "git_done"
    /\ UNCHANGED <<fs, hash_order, previous, events, scans, idx, cur, health, projects, visited, args, result, locals>>

\* lines 91-93: no data from the VCS inspector ends the analysis
CheckGitInfo ==
    /\ pc = "git_done"
    /\ IF git_info = None
       THEN pc' = "return" /\ health' = None
       ELSE pc' = "languages" /\ UNCHANGED health
    /\ UNCHANGED <<fs, hash_order, previous, events, scans, idx, cur, cwd, projects, visited, args, result, locals>>

\* line 96; an error of the tree walk that the loop reaches is caught at
\* line 146
DetectLanguages ==
    /\ pc = "languages"
    /\ IF ~DetectRaises(Seen(cur))
       THEN /\ \E order \in _detect_languages(Seen(cur), hash_order) :
                 /\ languages' = order
                 /\ hash_order' = DictSet(hash_order, DetectLoop(Seen(cur).walk, 1, <<>>), order)
            /\ pc' = "deps" /\ UNCHANGED health
       ELSE languages' = languages /\ hash_order' = hash_order
              /\ pc' = "return" /\ health' = None
    /\ events' = Append(events, Event("languages", cur))
    /\ UNCHANGED <<fs, previous, scans, idx, cur, cwd, projects, visited, args, result,
                   original_cwd, branch, last_commit, git_info, dep_info, github_repo,
                   github_info, quality_info, health_score>>

\* line 99
CheckDependencies ==
    /\ pc = "deps"
    /\ dep_info' = _check_dependencies(Seen(cur))
    /\ pc' = "repo_enter"
    /\ events' = Append(events, Event("manifests", cur))
    /\ UNCHANGED <<fs, hash_order, previous, scans, idx, cur, cwd, health, projects, visited, args, result,
                   original_cwd, branch, last_commit, git_info, languages, github_repo,
                   github_info, quality_info, health_score>>

\* lines 350-351 of _get_github_repo; a getcwd or chdir that fails is caught
\* at line 379 and nothing is returned
RepoEnter ==
    /\ pc = "repo_enter"
    /\ original_cwd' = IF GetcwdRaises THEN original_cwd ELSE cwd
    /\ IF Resolves /\ ~GetcwdRaises
       THEN cwd' = Path(cur) /\ pc' = "repo_url" /\ UNCHANGED github_repo
       ELSE cwd' = cwd /\ pc' = "repo_exit" /\ github_repo' = None
    /\ events' = Append(events, Event("origin", cur))
    /\ UNCHANGED <<fs, hash_order, previous, scans, idx, cur, health, projects, visited, args, result,
                   branch, last_commit, git_info, languages, dep_info,
                   github_info, quality_info, health_score>>

\* lines 353-380: git remote get-url origin
RepoUrl ==
    /\ pc = "repo_url"
    /\ LET run == Dir(cur).origin
       IN  github_repo' = IF run.rc = "ok" THEN RepoFromUrl(run.out) ELSE None
    /\ pc' = "repo_exit"
    /\ UNCHANGED <<fs, hash_order, previous, events, scans, idx, cur, cwd, health, projects, visited, args, result,
                   original_cwd, branch, last_commit, git_info, languages, dep_info,
                   github_info, quality_info, health_score>>

\* lines 381-385, the finally clause
RepoExit ==
    /\ pc = "repo_exit"
    /\ cwd' = RestoreCwd
    /\ pc' = "fetch"
    /\ UNCHANGED <<fs, hash_order, previous, events, scans, idx, cur, health, projects, visited, args, result, locals>>

\* lines 103-112: hasattr(self, 'github_token') holds of every scanner
FetchGithubInfo ==
    /\ pc = "fetch"
    /\ github_info' = IF github_repo # None
                      THEN _fetch_github_info(Dir(cur).remote)
                      ELSE DefaultGithubInfo
    /\ events' = IF github_repo # None
                 THEN events \o [i \in 1..Len(Requests(Dir(cur).remote)) |->
                                   Event(Requests(Dir(cur).remote)[i], cur)]
                 ELSE events
    /\ pc' = "quality"
    /\ UNCHANGED <<fs, hash_order, previous, scans, idx, cur, cwd, health, projects, visited, args, result,
                   original_cwd, branch, last_commit, git_info, languages, dep_info,
                   github_repo, quality_info, health_score>>

\* line 115
CheckQuality ==
    /\ pc = "quality"
    /\ quality_info' = _check_project_quality(Seen(cur))
    /\ pc' = "score"
    /\ events' = Append(events, Event("quality", cur))
    /\ UNCHANGED <<fs, hash_order, previous, scans, idx, cur, cwd, health, projects, visited, args, result,
                   original_cwd, branch, last_commit, git_info, languages, dep_info,
                   github_repo, github_info, health_score>>

\* line 118
CalculateScore ==
    /\ pc = "score"
    /\ health_score' = _calculate_health_score(git_info[1], dep_info, Some(github_info),
                                               Some(quality_info))
    /\ pc' = "build"
    /\ events' = Append(events, Event("score", cur))
    /\ UNCHANGED <<fs, hash_order, previous, scans, idx, cur, cwd, health, projects, visited, args, result,
                   original_cwd, branch, last_commit, git_info, languages, dep_info,
                   github_repo, github_info, quality_info>>

\* lines 126-144
ProjectHealth(d, path) ==
    [name                 |-> d.name,
     path                 |-> path,
     git_status           |-> git_info[1].status,
     last_commit          |-> git_info[1].last_commit,
     uncommitted_changes  |-> git_info[1].uncommitted,
     branch               |-> git_info[1].branch,
     remote_status        |-> git_info[1].remote_status,
     languages            |-> languages,
     dependencies_status  |-> IF dep_info.has_deps THEN dep_info.details
                              ELSE <<<<"No dependencies found">>>>,
     issues_count         |-> github_info.open_issues,
     health_score         |-> health_score,
     github_repo          |-> github_repo,
     open_issues          |-> github_info.open_issues,
     open_prs             |-> github_info.open_prs,
     stars                |-> github_info.stars,
     workflow_status      |-> github_info.workflow_status,
     last_github_activity |-> github_info.last_activity]

\* the keys of github_info the constructor call subscripts
RecordKeys == {"open_issues", "open_prs", "stars", "workflow_status", "last_activity"}

\* lines 120-148: the record is built; a KeyError of a subscript is caught
\* at line 146 and None is returned
BuildRecord ==
    /\ pc = "build"
    /\ health' = IF RecordKeys \subseteq DOMAIN github_info
                 THEN Some(ProjectHealth(Dir(cur), Path(cur)))
                 ELSE None
    /\ pc' = "return"
    /\ UNCHANGED <<fs, hash_order, previous, events, scans, idx, cur, cwd, projects, visited, args, result, locals>>

Next ==
    \/ ScanStart
    \/ Iterate
    \/ Return
    \/ AnalyzeEnter
    \/ GitEnter
    \/ GitBranch
    \/ GitLog
    \/ GitStatus
    \/ GitExit
    \/ CheckGitInfo
    \/ DetectLanguages
    \/ CheckDependencies
    \/ RepoEnter
    \/ RepoUrl
    \/ RepoExit
    \/ FetchGithubInfo
    \/ CheckQuality
    \/ CalculateScore
    \/ BuildRecord

\* a scan of a tree
Spec == Init /\ [][Next]_vars

\* a scan of a single directory, over every kind of repository
SpecProject == InitProject /\ [][Next]_vars

\* a scan of a tree of repositories in which git commands fail
SpecVcs == InitVcs /\ [][Next]_vars

\* a scan of a tree whose root may be missing, a file, or closed to the process
SpecRoot == InitRoot /\ [][Next]_vars

\* ------------------------------------------------------------------------
\* Repeated runs: more than one scan_projects call on a scanner, and a second
\* process that scans the same, unchanged tree
\* ------------------------------------------------------------------------
RerunTrees ==
    TreesOf({<<"plain">>, <<"stale">>, <<"fresh">>, <<"no_origin">>, <<"remote", "ok", "ok">>},
            {<<>>, <<<<"fresh">>>>},
            {[enterable |-> TRUE, removed |-> FALSE, relative |-> FALSE]}, {"ok"}, 1..MaxScans)

InitRerun == InitOn(RerunTrees)

\* The process ends after its calls, and the program is run again on the same
\* tree: a new interpreter (main, line 1063) constructs a new scanner.  The
\* records the first process returned are kept for comparison.
Restart ==
    /\ pc = "idle"
    /\ scans = fs.calls
    /\ previous = None
    /\ previous' = Some(projects)
    /\ projects' = <<>>
    /\ scans' = 0
    /\ hash_order' = EmptyDict
    /\ cwd' = StartDir
    /\ visited' = <<>>
    /\ events' = <<>>
    /\ UNCHANGED <<fs, pc, idx, cur, health, args, result, locals>>

NextRerun == Next \/ Restart

\* two runs of the program on one tree, each of up to MaxScans calls
SpecRerun == InitRerun /\ [][NextRerun]_vars

\* ------------------------------------------------------------------------
\* Direct calls of the score aggregator, on arguments the pipeline never
\* builds as well as on those it does
\* ------------------------------------------------------------------------
ScoreGitInfos ==
    {[GitInfo(<<"m", "a", "i", "n">>, c, u) EXCEPT !.remote_status = r] :
        c \in {None, Some(Today - 3), Some(Today - 400)},
        u \in {0, 5, 11, 75, Synthetic},
        r \in {"unknown", "clean"}}

ScoreDepInfos ==
    {EmptyDepInfo,
     AddEcosystem(EmptyDepInfo, "Python", "pip", 12, <<"pip", 12>>),
     \* what lines 264-329 build from a requirements.txt and a pyproject.toml
     AddEcosystem(AddEcosystem(EmptyDepInfo, "Python", "pip", 2, <<"pip", 2>>),
                  "Python", "poetry", 2, <<"poetry", 1, 1>>),
     \* counts without the has_deps mark, which no manifest block leaves
     [EmptyDepInfo EXCEPT !.dep_counts = DictSet(EmptyDict, "pip", 12)],
     AddEcosystem(AddEcosystem(EmptyDepInfo, "Node.js", "npm", Synthetic, <<"npm", Synthetic, 0>>),
                  "Go", "go", 3, <<"go", 3>>)}

ScoreGithubInfos ==
    {None, Some(EmptyDict), Some(DefaultGithubInfo),
     Some([DefaultGithubInfo EXCEPT !.open_issues = 60, !.open_prs = 11]),
     Some([DefaultGithubInfo EXCEPT !.open_prs = 3, !.stars = 2000,
                                    !.last_activity = Some(Today - 1)]),
     Some([DefaultGithubInfo EXCEPT !.open_issues = Synthetic * Synthetic])}

ScoreQualityInfos ==
    {None}
      \cup {Some([has_readme |-> b, readme_quality |-> t, has_tests |-> b, test_coverage |-> t,
                  has_ci_cd |-> b, ci_cd_type |-> "none", has_documentation |-> b,
                  code_quality_tools |-> t, project_structure |-> t]) :
              b \in BOOLEAN, t \in {-Synthetic, 0, 5, Synthetic}}

InitScore ==
    /\ fs = [root |-> <<"plain">>, children |-> <<>>, start_enterable |-> TRUE,
             start_removed |-> FALSE, base_relative |-> FALSE, access |-> "ok", calls |-> 1]
    /\ pc = "call"
    /\ scans = 0
    /\ idx = 0
    /\ cur = 0
    /\ cwd = StartDir
    /\ health = None
    /\ projects = <<>>
    /\ visited = <<>>
    /\ args \in [git_info : ScoreGitInfos, dep_info : ScoreDepInfos,
                 github_info : ScoreGithubInfos, quality_info : ScoreQualityInfos]
    /\ result = 0
    /\ hash_order = EmptyDict
    /\ previous = None
    /\ events = <<>>
    /\ FreshLocals

\* _calculate_health_score(git_info, dep_info, github_info, quality_info)
CallScore ==
    /\ pc = "call"
    /\ result' = _calculate_health_score(args.git_info, args.dep_info, args.github_info,
                                         args.quality_info)
    /\ pc' = "called"
    /\ UNCHANGED <<fs, hash_order, previous, events, scans, idx, cur, cwd, health, projects, visited, args, locals>>

NextScore == CallScore

SpecScore == InitScore /\ [][NextScore]_vars

\* ------------------------------------------------------------------------
\* Direct calls of the signal sources on one directory, in the order of
\* _analyze_project: the working-tree status of the VCS inspector (line 92),
\* the manifest analyzer (line 99) and the quality heuristics (line 115),
\* over directories assembled from the cases below.  The methods are called
\* on the directory itself, without the language detection of line 95 in
\* between: inside _analyze_project a directory whose walk fails reaches
\* lines 99 and 115 only when _detect_languages left the walk at its fifth
\* language (line 232) before the failure.
\* ------------------------------------------------------------------------
\* a manifest: absent (None), or present and readable or not; a readable
\* one lists dependencies or none
PackageJsonCases ==
    {None, Some([ok |-> TRUE, deps |-> 3, dev |-> 2]), Some([ok |-> FALSE, deps |-> 0, dev |-> 0]),
     \* a JSON object without dependency tables, {"name": "x"}
     Some([ok |-> TRUE, deps |-> 0, dev |-> 0])}

GoModCases ==
    {None,
     Some([ok |-> TRUE,
           lines |-> <<<<"m", "o", "d", "u", "l", "e", " ", "e", "x", "a", "m", "p", "l", "e", ".", "c", "o", "m", "/", "m", "\n">>, <<"\n">>, <<"g", "o", " ", "1", ".", "2", "1", "\n">>, <<"\n">>,
                       <<"r", "e", "q", "u", "i", "r", "e", " ", "g", "i", "t", "h", "u", "b", ".", "c", "o", "m", "/", "a", "/", "b", " ", "v", "1", ".", "0", ".", "0", "\n">>, <<"r", "e", "q", "u", "i", "r", "e", " ", "r", "s", "c", ".", "i", "o", "/", "q", " ", "v", "1", ".", "5", ".", "2", "\n">>>>]),
     \* the module and go lines only, between them an empty line and after
     \* them a line of one em space (U+2003)
     Some([ok |-> TRUE,
           lines |-> <<<<"m", "o", "d", "u", "l", "e", " ", "e", "x", "a", "m", "p", "l", "e", ".", "c", "o", "m", "/", "m", "\n">>, <<"\n">>, <<"g", "o", " ", "1", ".", "2", "1", "\n">>, <<"U+2003", "\n">>>>]),
     Some([ok |-> FALSE, lines |-> <<>>])}

RequirementsCases ==
    {None, Some([ok |-> TRUE, lines |-> <<<<"#", " ", "p", "i", "n", "n", "e", "d", "\n">>, <<"r", "e", "q", "u", "e", "s", "t", "s", "=", "=", "2", ".", "0", "\n">>, <<"\n">>, <<"f", "l", "a", "s", "k", "\n">>>>])}

PyprojectCases ==
    {None,
     Some([ok |-> TRUE,
           lines |-> <<<<"[", "t", "o", "o", "l", ".", "p", "o", "e", "t", "r", "y", ".", "d", "e", "p", "e", "n", "d", "e", "n", "c", "i", "e", "s", "]">>, <<"p", "y", "t", "h", "o", "n", " ", "=", " ", "\"", "^", "3", ".", "1", "0", "\"">>, <<"c", "l", "i", "c", "k", " ", "=", " ", "\"", "^", "8", ".", "0", "\"">>,
                       <<"[", "t", "o", "o", "l", ".", "p", "o", "e", "t", "r", "y", ".", "g", "r", "o", "u", "p", ".", "d", "e", "v", ".", "d", "e", "p", "e", "n", "d", "e", "n", "c", "i", "e", "s", "]">>, <<"p", "y", "t", "e", "s", "t", " ", "=", " ", "\"", "^", "7", ".", "0", "\"">>>>])}

\* the README files present, each with whether it can be read and its length
ReadmeCases ==
    {EmptyDict,
     "README.md" :> [ok |-> TRUE, len |-> 100],
     "README.md" :> [ok |-> TRUE, len |-> 2500],
     "README.md" :> [ok |-> FALSE, len |-> 0],
     ("README.rst" :> [ok |-> TRUE, len |-> 600]) @@ ("readme.md" :> [ok |-> TRUE, len |-> 5000])}

\* test directories at the top, and test files anywhere below
TestCases ==
    {[dirs |-> {}, files |-> <<>>],
     [dirs |-> {"tests"}, files |-> <<>>],
     [dirs |-> {"tests", "spec"},
      files |-> <<<<"t", "e", "s", "t", "_", "a", ".", "p", "y">>, <<"t", "e", "s", "t", "_", "b", ".", "p", "y">>, <<"t", "e", "s", "t", "_", "c", ".", "p", "y">>, <<"t", "e", "s", "t", "_", "d", ".", "p", "y">>, <<"t", "e", "s", "t", "_", "e", ".", "p", "y">>,
                  <<"t", "e", "s", "t", "_", "f", ".", "p", "y">>, <<"g", "_", "t", "e", "s", "t", ".", "p", "y">>, <<"h", ".", "s", "p", "e", "c", ".", "j", "s">>>>]}

\* the conventional directories present
StructureCases == {{}, {"src", "config"}, common_dirs}

\* outputs of git status --porcelain
StatusCases ==
    {<<>>, <<" ", "M", " ", "a", "\n", "\n", "?", "?", " ", "b", "\n">>, Repeat(<<" ", "M", " ", "f", "\n">>, 75)}

Absent(manifest) == IF manifest = None THEN [ok |-> FALSE, lines |-> <<>>] ELSE manifest[1]

SignalDir(pj, gm, rq, pp, rd, ts, st, so, wk) ==
    [PlainDir EXCEPT
       !.name = <<"d">>,
       !.top = {".git"} \cup (IF pj # None THEN {"package.json"} ELSE {})
                        \cup (IF gm # None THEN {"go.mod"} ELSE {})
                        \cup (IF rq # None THEN {"requirements.txt"} ELSE {})
                        \cup (IF pp # None THEN {"pyproject.toml"} ELSE {})
                        \cup DOMAIN rd \cup ts.dirs \cup st,
       !.walk = [i \in 1..Len(ts.files) |-> [name |-> ts.files[i], isfile |-> TRUE]],
       !.walk_ok = wk,
       !.readme = rd,
       !.package_json = IF pj = None THEN [ok |-> FALSE, deps |-> 0, dev |-> 0] ELSE pj[1],
       !.go_mod = Absent(gm),
       !.requirements = Absent(rq),
       !.pyproject = Absent(pp),
       !.vcs = [HealthyVcs EXCEPT !.status.out = so]]

SignalDirs ==
    {SignalDir(pj, gm, rq, pp, rd, ts, st, so, wk) :
        pj \in PackageJsonCases, gm \in GoModCases, rq \in RequirementsCases,
        pp \in PyprojectCases, rd \in ReadmeCases, ts \in TestCases,
        st \in StructureCases, so \in StatusCases, wk \in BOOLEAN}

InitSignals ==
    /\ fs = [root |-> <<"plain">>, children |-> <<>>, start_enterable |-> TRUE,
             start_removed |-> FALSE, base_relative |-> FALSE, access |-> "ok", calls |-> 1]
    /\ pc = "call_status"
    /\ scans = 0
    /\ idx = 0
    /\ cur = 0
    /\ cwd = StartDir
    /\ health = None
    /\ projects = <<>>
    /\ visited = <<>>
    /\ args \in SignalDirs
    /\ result = [dep_info |-> EmptyDepInfo, quality_info |-> DefaultQualityInfo,
                 git_info |-> None]
    /\ hash_order = EmptyDict
    /\ previous = None
    /\ events = <<>>
    /\ FreshLocals

\* _check_dependencies(project_path)
CallDependencies ==
    /\ pc = "call_dependencies"
    /\ result' = [result EXCEPT !.dep_info = _check_dependencies(args)]
    /\ pc' = "call_quality"
    /\ UNCHANGED <<fs, hash_order, previous, events, scans, idx, cur, cwd, health, projects, visited,
                   args, locals>>

\* _check_project_quality(project_path)
CallQuality ==
    /\ pc = "call_quality"
    /\ result' = [result EXCEPT !.quality_info = _check_project_quality(args)]
    /\ pc' = "called_signals"
    /\ UNCHANGED <<fs, hash_order, previous, events, scans, idx, cur, cwd, health, projects, visited,
                   args, locals>>

\* lines 181-195 of _get_git_info on the output of git status
CallStatus ==
    /\ pc = "call_status"
    /\ result' = [result EXCEPT !.git_info =
                     Some(GitInfo(BranchName(args.vcs.branch.out),
                                  LastCommit(args.vcs.log.out, args.vcs.log.day),
                                  Uncommitted(args.vcs.status.out)))]
    /\ pc' = "call_dependencies"
    /\ UNCHANGED <<fs, hash_order, previous, events, scans, idx, cur, cwd, health, projects, visited,
                   args, locals>>

\* _check_dependencies has returned
DependenciesCalled == pc \in {"call_quality", "called_signals", "scored_signals"}

\* _check_project_quality has returned
QualityCalled == pc \in {"called_signals", "scored_signals"}

NextSignals == CallStatus \/ CallDependencies \/ CallQuality

SpecSignals == InitSignals /\ [][NextSignals]_vars

\* ------------------------------------------------------------------------
\* The manifest analyzer followed by the score, as _analyze_project chains
\* them (lines 99 and 118), over directories that differ in their manifests
\* ------------------------------------------------------------------------
\* go.mod files: those above and one whose require block names modules under
\* golang.org and gopkg.in
GoModFiles ==
    GoModCases \cup
    {Some([ok |-> TRUE,
           lines |-> <<<<"m", "o", "d", "u", "l", "e", " ", "e", "x", "a", "m", "p", "l", "e", ".", "c", "o", "m", "/", "m", "\n">>, <<"\n">>, <<"g", "o", " ", "1", ".", "2", "1", "\n">>, <<"\n">>,
                       <<"r", "e", "q", "u", "i", "r", "e", " ", "(", "\n">>,
                       <<"\t", "g", "i", "t", "h", "u", "b", ".", "c", "o", "m", "/", "a", "/", "b", " ", "v", "1", ".", "0", ".", "0", "\n">>,
                       <<"\t", "g", "o", "l", "a", "n", "g", ".", "o", "r", "g", "/", "x", "/", "t", "e", "x", "t", " ", "v", "0", ".", "1", "4", ".", "0", "\n">>,
                       <<"\t", "g", "o", "p", "k", "g", ".", "i", "n", "/", "y", "a", "m", "l", ".", "v", "3", " ", "v", "3", ".", "0", ".", "1", "\n">>,
                       <<")", "\n">>>>])}

\* requirements.txt files: those above and one that cannot be read
RequirementsFiles == RequirementsCases \cup {Some([ok |-> FALSE, lines |-> <<>>])}

\* pyproject.toml files: those above, one that cannot be read, one whose
\* dependency section names packages that start with 'python' amid other
\* sections, and one without dependencies
PyprojectFiles ==
    PyprojectCases \cup
    {Some([ok |-> FALSE, lines |-> <<>>]),
     Some([ok |-> TRUE,
           lines |-> <<<<"[", "t", "o", "o", "l", ".", "p", "o", "e", "t", "r", "y", ".", "d", "e", "p", "e", "n", "d", "e", "n", "c", "i", "e", "s", "]">>,
                       <<"p", "y", "t", "h", "o", "n", " ", "=", " ", "\"", "^", "3", ".", "1", "0", "\"">>,
                       <<"p", "y", "t", "h", "o", "n", "-", "d", "a", "t", "e", "u", "t", "i", "l", " ", "=", " ", "\"", "^", "2", ".", "8", "\"">>,
                       <<"#", " ", "p", "i", "n", "n", "e", "d", " ", "=", " ", "l", "a", "t", "e", "r">>,
                       <<"r", "e", "q", "u", "e", "s", "t", "s", " ", "=", " ", "\"", "^", "2", ".", "3", "1", "\"">>,
                       <<>>,
                       <<"[", "b", "u", "i", "l", "d", "-", "s", "y", "s", "t", "e", "m", "]">>,
                       <<"r", "e", "q", "u", "i", "r", "e", "s", " ", "=", " ", "[", "\"", "p", "o", "e", "t", "r", "y", "-", "c", "o", "r", "e", "\"", "]">>,
                       <<"[", "t", "o", "o", "l", ".", "p", "o", "e", "t", "r", "y", ".", "g", "r", "o", "u", "p", ".", "d", "e", "v", ".", "d", "e", "p", "e", "n", "d", "e", "n", "c", "i", "e", "s", "]">>,
                       <<"p", "y", "t", "e", "s", "t", " ", "=", " ", "\"", "^", "7", ".", "0", "\"">>,
                       <<"[", "t", "o", "o", "l", ".", "b", "l", "a", "c", "k", "]">>,
                       <<"l", "i", "n", "e", "-", "l", "e", "n", "g", "t", "h", " ", "=", " ", "8", "8">>>>]),
     Some([ok |-> TRUE,
           lines |-> <<<<"[", "b", "u", "i", "l", "d", "-", "s", "y", "s", "t", "e", "m", "]">>, <<"r", "e", "q", "u", "i", "r", "e", "s", " ", "=", " ", "[", "\"", "s", "e", "t", "u", "p", "t", "o", "o", "l", "s", "\"", "]">>>>])}

\* the directories have 75 uncommitted changes, which keeps their scores
\* below the upper clamp
ManifestDirs ==
    {SignalDir(pj, gm, rq, pp, EmptyDict, [dirs |-> {}, files |-> <<>>], {},
               Repeat(<<" ", "M", " ", "f", "\n">>, 75), TRUE) :
        pj \in PackageJsonCases, gm \in GoModFiles, rq \in RequirementsFiles,
        pp \in PyprojectFiles}

InitManifests ==
    /\ fs = [root |-> <<"plain">>, children |-> <<>>, start_enterable |-> TRUE,
             start_removed |-> FALSE, base_relative |-> FALSE, access |-> "ok", calls |-> 1]
    /\ pc = "call_status"
    /\ scans = 0
    /\ idx = 0
    /\ cur = 0
    /\ cwd = StartDir
    /\ health = None
    /\ projects = <<>>
    /\ visited = <<>>
    /\ args \in ManifestDirs
    /\ result = [dep_info |-> EmptyDepInfo, quality_info |-> DefaultQualityInfo,
                 git_info |-> None]
    /\ hash_order = EmptyDict
    /\ previous = None
    /\ events = <<>>
    /\ FreshLocals

\* line 118 on the results of the signal sources, no remote origin
ScoreSignals ==
    /\ pc = "called_signals"
    /\ health_score' = _calculate_health_score(result.git_info[1], result.dep_info,
                                               Some(DefaultGithubInfo),
                                               Some(result.quality_info))
    /\ pc' = "scored_signals"
    /\ UNCHANGED <<fs, hash_order, previous, events, scans, idx, cur, cwd, health, projects, visited,
                   args, result, original_cwd, branch, last_commit, git_info, languages,
                   dep_info, github_repo, github_info, quality_info>>

NextManifests == NextSignals \/ ScoreSignals

SpecManifests == InitManifests /\ [][NextManifests]_vars

\* ------------------------------------------------------------------------
\* Properties
\* ------------------------------------------------------------------------
\* the unclamped sum of the call at hand
ArgsUnclamped ==
    UnclampedScore(args.git_info, args.dep_info, args.github_info, args.quality_info)

\* C1: whatever the VCS, dependency, remote and quality arguments, and however
\* far below 0 or above 10 their adjustments drive the sum, the score
\* _calculate_health_score returns lies in [0.0, 10.0].
C1_ScoreInRange == pc = "called" => (0 <= result /\ result <= 100)

\* a call whose unclamped sum is far below 0
C1_Witness == pc = "called" /\ ArgsUnclamped < -100 /\ result = 0

\* the directory a record was made for
DirAt(path) == IF Len(path) = 1 THEN Dir(0) ELSE Dir(path[2])

\* scan_projects has returned
Scanned == pc = "idle" /\ scans > 0

\* the entries of the root the loop of scan_projects admits
Admitted == {i \in 1..Len(fs.children) : Dir(i).isdir /\ ~StartsWith(Dir(i).name, <<".">>)}

\* the paths of the records collected
RecordedPaths == {projects[k].path : k \in 1..Len(projects)}

\* C2: no record of the collection scan_projects returns belongs to a directory
\* without repository metadata (.git): such a directory, root or child, is
\* skipped and never recorded as a low-health project.
C2_OnlyRepositoriesRecorded ==
    \A k \in 1..Len(projects) : ".git" \in DirAt(projects[k].path).top

\* a finished scan that analysed a child without .git and recorded a sibling
C2_Witness ==
    /\ Scanned
    /\ \E i \in Range(visited) : i > 0 /\ ".git" \notin Dir(i).top
    /\ projects # <<>>

\* every git command succeeds in the directory
VcsSucceeds(d) == d.vcs.branch.rc = "ok" /\ d.vcs.log.rc = "ok" /\ d.vcs.status.rc = "ok"

\* the directory's origin names a GitHub repository
HasGithubOrigin(d) == d.origin.rc = "ok" /\ RepoFromUrl(d.origin.out) # None

\* a repository in whose analysis nothing fails: no git command, not the tree
\* walk, and no remote request
HealthyRepo(d) ==
    /\ ".git" \in d.top
    /\ VcsSucceeds(d)
    /\ d.walk_ok
    /\ HasGithubOrigin(d) => (d.remote.meta.rc = "ok" /\ d.remote.pulls.rc = "ok")

\* C3: a failure while analysing one directory (the root or a child) never
\* aborts the walk: when scan_projects returns, every non-hidden immediate
\* child directory has been analysed and every healthy repository among the
\* root and those children has its record in the collection.
C3_WalkSurvivesFailures ==
    Scanned =>
        /\ \A i \in Admitted : i \in Range(visited)
        /\ \A i \in Admitted : HealthyRepo(Dir(i)) => Path(i) \in RecordedPaths
        /\ HealthyRepo(Dir(0)) => Path(0) \in RecordedPaths

\* C4: for a repository whose VCS inspection succeeds, no outcome of the
\* remote requests (network error, timeout, parse error, or a status other
\* than 200, on the metadata or on the pull-request request) keeps the project
\* out of the output: _analyze_project returns a record, as it does with
\* remote enrichment disabled.
C4_RemoteNeverSkips ==
    (pc = "return" /\ HasGit(Dir(cur)) /\ VcsSucceeds(Dir(cur)) /\ Dir(cur).walk_ok)
        => health # None

\* the remote fields of a record are the documented defaults
RemoteDefaults(r) ==
    /\ r.stars = 0
    /\ r.open_prs = 0
    /\ r.workflow_status = "unknown"
    /\ r.last_github_activity = None

\* the requests for the record's repository were made (an identifier was
\* found, line 104) and one of the two fails
RemoteFailed(r) ==
    /\ r.github_repo # None
    /\ DirAt(r.path).remote.meta.rc # "ok" \/ DirAt(r.path).remote.pulls.rc # "ok"

\* C5 as stated: when remote enrichment fails, the record has 0 stars, 0 open
\* PRs, workflow status 'unknown' and no last-activity time.
C5_DefaultsOnAnyFailure ==
    \A k \in 1..Len(projects) :
        RemoteFailed(projects[k]) => RemoteDefaults(projects[k])

\* C5 as amended: when the metadata request fails (error, timeout, parse error
\* or a status other than 200) the record has 0 stars, 0 open PRs, 0 open
\* issues, workflow status 'unknown' and no last-activity time; when only the
\* pull-request request raises, open PRs is 0 and workflow status 'unknown'
\* while stars, last activity and the raw open-issues count are as fetched.
C5_DefaultsOnMetadataFailure ==
    \A k \in 1..Len(projects) :
        LET r == projects[k]
            d == DirAt(r.path)
        IN  /\ (r.github_repo # None /\ d.remote.meta.rc # "ok")
                 => (RemoteDefaults(r) /\ r.open_issues = 0)
            /\ (r.github_repo # None /\ d.remote.meta.rc = "ok" /\ Raises(d.remote.pulls.rc))
                 => /\ r.open_prs = 0
                    /\ r.workflow_status = "unknown"
                    /\ r.stars = d.remote.meta.stargazers_count
                    /\ r.open_issues = d.remote.meta.open_issues_count
                    /\ r.last_github_activity = LastActivity(d.remote.meta.updated_at)

\* a record of a repository whose metadata request got a status other than 200
C5_Witness ==
    \E k \in 1..Len(projects) :
        LET d == DirAt(projects[k].path)
        IN  /\ projects[k].github_repo # None
            /\ d.remote.meta.rc = "non200" /\ d.remote.meta.stargazers_count > 0

\* control is inside _get_git_info or _get_github_repo
Inspecting == pc \in {"git_branch", "git_log", "git_status", "git_exit", "repo_url", "repo_exit"}

\* C6: the working directory is back at its prior value whenever the VCS
\* inspection or the origin-URL lookup has returned, whatever their outcome;
\* so wherever control is in the walker, and when scan_projects returns, it is
\* the directory in effect before the scan started.
C6_CwdRestored == ~Inspecting => cwd = StartDir

\* C7: if one of the three git commands (branch, log, status) times out or
\* exits non-zero, _get_git_info returns no data and the project is skipped:
\* no record, partial or not, is ever added for it, and when its analysis
\* returns the loop of the walk goes on to the entry after it with the
\* collection as it was.
C7_VcsFailureSkipsProject ==
    /\ [](/\ (pc = "git_done" /\ ~VcsSucceeds(Dir(cur))) => git_info = None
          /\ \A k \in 1..Len(projects) : VcsSucceeds(DirAt(projects[k].path)))
    /\ [][(pc = "return" /\ ~VcsSucceeds(Dir(cur)))
             => (pc' = "iter" /\ idx' = idx + 1 /\ projects' = projects)]_vars

\* a finished scan in which the status command failed in one repository after
\* its other two commands had succeeded, and the repository after it was recorded
C7_Witness ==
    /\ Scanned
    /\ \E i, j \in Admitted :
          /\ i < j
          /\ Dir(i).vcs.status.rc \in {"nonzero", "timeout"}
          /\ Dir(i).vcs.branch.rc = "ok" /\ Dir(i).vcs.log.rc = "ok"
          /\ Path(i) \notin RecordedPaths
          /\ Path(j) \in RecordedPaths

\* the unclamped sum of the analysis at hand
LocalUnclamped ==
    UnclampedScore(git_info[1], dep_info, Some(github_info), Some(quality_info))

\* the analysis at hand has computed its score
Scored == pc = "build"

\* uncommitted-change count 75, last commit 400 days ago, no README, tests, CI
\* or any other quality signal, no manifest, no remote data
C8_Case ==
    /\ Scored
    /\ git_info[1].uncommitted = 75
    /\ git_info[1].last_commit # None
    /\ DaysOld(git_info[1].last_commit[1]) = 400
    /\ quality_info = DefaultQualityInfo
    /\ ~dep_info.has_deps
    /\ github_repo = None

\* C8 as stated: such a project produced by the pipeline scores exactly 3.0
\* (= max(0.0, 10.0 - 3.0 - 4.0)).
C8_StaleScoreIs3 == C8_Case => health_score = 30

\* C8 as amended: such a project scores exactly 2.5 (= 10.0 - 3.0 - 4.0 - 0.5):
\* the remote-sync status of a git_info the VCS inspector returns is always
\* 'unknown', which costs 0.5.
C8_StaleScoreIs2_5 ==
    C8_Case => (health_score = 25 /\ git_info[1].remote_status = "unknown")

C8_Witness == C8_Case /\ health_score = 25

\* the entries under the directory that match one of the test file patterns
MatchingTestFiles(d) ==
    {i \in 1..Len(d.walk) : \E g \in 1..Len(test_globs) : Glob(test_globs[g], d.walk[i].name)}

\* uncommitted-change count 0, last commit 3 days ago, a README of 2500 bytes,
\* tests/ with 4 matching files, a CI marker directory, a requirements.txt of
\* 12 dependency lines
C9_Case ==
    /\ Scored
    /\ git_info[1].uncommitted = 0
    /\ git_info[1].last_commit # None
    /\ DaysOld(git_info[1].last_commit[1]) = 3
    /\ "README.md" \in Dir(cur).top
    /\ Dir(cur).readme["README.md"] = [ok |-> TRUE, len |-> 2500]
    /\ "tests" \in Dir(cur).top
    /\ Cardinality(MatchingTestFiles(Dir(cur))) = 4
    /\ {".github/workflows", ".circleci"} \cap Dir(cur).top # {}
    /\ "pip" \in DOMAIN dep_info.dep_counts
    /\ dep_info.dep_counts["pip"] = 12

\* C9: such a project scores at least 9.0, and it is the upper clamp that
\* bounds the score: the unclamped sum exceeds 10.0 and the score is 10.0.
C9_FreshScoreClamped ==
    C9_Case => (health_score >= 90 /\ health_score = 100 /\ LocalUnclamped > 100)

\* the case with test files that match one pattern each
C9_Witness == C9_Case /\ quality_info.test_coverage = 2 /\ health_score = 100

\* both requests succeed with raw open-issues 30 and 10 open pull requests
C10_Case ==
    /\ Scored
    /\ github_repo # None
    /\ Dir(cur).remote.meta.rc = "ok"
    /\ Dir(cur).remote.pulls.rc = "ok"
    /\ Dir(cur).remote.meta.open_issues_count = 30
    /\ Dir(cur).remote.pulls.n = 10

\* C10 as stated: the displayed open-issues count is 20, the PR adjustment
\* applied to the score is -0.3 and the open-issue adjustment is -1.0.
C10_AdjustmentsAsStated ==
    C10_Case => /\ github_info.open_issues = 20
                /\ OpenPRsAdj(github_info) = -3
                /\ OpenIssuesAdj(github_info) = -10

\* C10 as amended: the displayed open-issues count is 20, no PR adjustment is
\* applied (10 is not more than 10) and the open-issue adjustment is -0.5
\* (20 is more than 10 but not more than 20).
C10_AdjustmentsOfCode ==
    C10_Case => /\ github_info.open_issues = 20
                /\ github_info.open_prs = 10
                /\ OpenPRsAdj(github_info) = 0
                /\ OpenIssuesAdj(github_info) = -5
                /\ health_score = Clamp(LocalUnclamped)

C10_Witness == C10_Case /\ github_info.open_issues = 20 /\ health_score = 95

\* both processes have returned from their last call
BothRunsDone == previous # None /\ pc = "idle" /\ scans = fs.calls

\* C11: two runs of the pipeline on an unchanged directory, with constant
\* remote answers and a fixed clock, give identical records: every record of
\* the second run equals the record the first run made for the same path.
C11_RerunsAgree ==
    BothRunsDone =>
        \A i \in 1..Len(projects) : \A j \in 1..Len(previous[1]) :
            projects[i].path = previous[1][j].path => projects[i] = previous[1][j]

\* C15: however often scan_projects was called on the scanner, no project
\* path appears more than once in the collection it returns.
C15_NoPathTwice ==
    pc = "idle" =>
        \A i, j \in 1..Len(projects) : projects[i].path = projects[j].path => i = j

\* the directory with every manifest but one removed
OnlyManifest(d, file) ==
    [d EXCEPT !.top = (@ \ {"package.json", "requirements.txt", "pyproject.toml", "go.mod"})
                         \cup {file}]

\* both the package.json and the go.mod of the directory can be read
BothManifests(d) ==
    /\ "package.json" \in d.top /\ d.package_json.ok
    /\ "go.mod" \in d.top /\ d.go_mod.ok

\* C12 as stated: for a directory with both a package.json and a go.mod that
\* can be read, _check_dependencies reports a non-zero count for npm and a
\* non-zero count for go in the same result.
C12_NonZeroForBoth ==
    (DependenciesCalled /\ BothManifests(args)) =>
        LET counts == result.dep_info.dep_counts
        IN  /\ {"npm", "go"} \subseteq DOMAIN counts
            /\ counts["npm"] > 0
            /\ counts["go"] > 0

\* the lines of a go.mod that line 337 counts
GoLinesCounted(lines) ==
    {i \in 1..Len(lines) :
        /\ Strip(lines[i]) # <<>>
        /\ ~StartsWith(Strip(lines[i]), <<"m", "o", "d", "u", "l", "e">>)
        /\ ~StartsWith(Strip(lines[i]), <<"g", "o">>)}

\* C12, amended: for a directory with both a package.json and a go.mod that
\* can be read, the result of _check_dependencies holds a count for npm and a
\* count for go at once and both ecosystems are in the language list.  The
\* npm count is the number of entries of the two dependency tables and the go
\* count the number of lines counted by line 337: each is zero for a manifest
\* without such entries and non-zero otherwise, each is the count the manifest
\* gives when it is the only one of the directory, and a requirements.txt or
\* pyproject.toml next to them changes neither.
C12_ManifestsAdditive ==
    (DependenciesCalled /\ BothManifests(args)) =>
        LET counts == result.dep_info.dep_counts
            npm    == _check_dependencies(OnlyManifest(args, "package.json")).dep_counts["npm"]
            go     == _check_dependencies(OnlyManifest(args, "go.mod")).dep_counts["go"]
        IN  /\ {"npm", "go"} \subseteq DOMAIN counts
            /\ counts["npm"] = npm /\ counts["go"] = go
            /\ npm = args.package_json.deps + args.package_json.dev
            /\ go = Cardinality(GoLinesCounted(args.go_mod.lines))
            /\ {"Node.js", "Go"} \subseteq Range(result.dep_info.languages)
            /\ result.dep_info.has_deps

\* all four manifests present, a package.json without dependency tables and a
\* go.mod with two requirements: the npm count 0 and the go count 2 are both
\* reported, next to pip and poetry
C12_Witness ==
    /\ pc = "called_signals"
    /\ BothManifests(args)
    /\ args.package_json.deps + args.package_json.dev = 0
    /\ DOMAIN result.dep_info.dep_counts = {"npm", "pip", "poetry", "go"}
    /\ result.dep_info.dep_counts["npm"] = 0
    /\ result.dep_info.dep_counts["go"] = 2
    /\ result.dep_info.languages = <<"Node.js", "Python", "Python", "Go">>

\* C14: the uncommitted-change count is never negative, the status is 'clean'
\* exactly when the count is 0 and 'dirty' otherwise, and the README quality,
\* the test coverage estimate and the structure score are each within 0..5,
\* whatever the directory holds.
C14_CountsAndTiersBounded ==
    pc = "called_signals" =>
        LET g == result.git_info[1]
            q == result.quality_info
        IN  /\ g.uncommitted >= 0
            /\ g.status \in {"clean", "dirty"}
            /\ g.status = "clean" <=> g.uncommitted = 0
            /\ q.readme_quality \in 0..5
            /\ q.test_coverage \in 0..5
            /\ q.project_structure \in 0..5

\* a dirty tree of 75 changes in a directory whose test files and conventional
\* directories exceed what the tiers can express: 16 pattern matches and test
\* directories, 7 structure points
C14_Witness ==
    /\ pc = "called_signals"
    /\ result.git_info[1].uncommitted = 75 /\ result.git_info[1].status = "dirty"
    /\ TestCount(args) \div 2 > 5 /\ result.quality_info.test_coverage = 5
    /\ Cardinality(common_dirs \cap args.top) + 1 > 5
    /\ result.quality_info.project_structure = 5
    /\ result.quality_info.readme_quality = 5

\* The rows of the adjustment table of the specification (section 4.6), in
\* tenths, for the call at hand, each with the condition the table gives it.
\* A row on remote data reads an absent value as 0 or none.
RowRemote == IF args.github_info = None THEN EmptyDict ELSE args.github_info[1]

RowUncommitted ==
    LET n == args.git_info.uncommitted
    IN  IF n > 50 THEN -30 ELSE IF n > 10 THEN -20 ELSE IF n > 0 THEN -Min(10, n) ELSE 0

RowCommitAge ==
    IF args.git_info.last_commit = None THEN 0
    ELSE LET days == Today - args.git_info.last_commit[1]
         IN  IF days > 365 THEN -40 ELSE IF days > 180 THEN -25
             ELSE IF days > 60 THEN -15 ELSE IF days > 14 THEN -5 ELSE 0

RowRemoteSync == IF args.git_info.remote_status = "unknown" THEN -5 ELSE 0

RowHasDependencies == IF args.dep_info.has_deps THEN 5 ELSE 0

\* the row has no condition but the total
RowDependencyCount ==
    LET total == SumOver(args.dep_info.dep_counts, DOMAIN args.dep_info.dep_counts)
    IN  IF total >= 5 /\ total <= 50 THEN 3 ELSE IF total > 100 THEN -5 ELSE 0

\* more than one language: a language named twice is one language
RowMultiEcosystem == IF Cardinality(Range(args.dep_info.languages)) > 1 THEN 2 ELSE 0

RowOpenIssues ==
    LET n == Get(RowRemote, "open_issues", 0)
    IN  IF n > 50 THEN -15 ELSE IF n > 20 THEN -10 ELSE IF n > 10 THEN -5 ELSE 0

RowOpenPRs ==
    LET n == Get(RowRemote, "open_prs", 0)
    IN  IF n >= 1 /\ n <= 5 THEN 3 ELSE IF n > 10 THEN -3 ELSE 0

RowStars ==
    LET n == Get(RowRemote, "stars", 0)
    IN  IF n > 1000 THEN 5 ELSE IF n > 100 THEN 3 ELSE IF n > 10 THEN 1 ELSE 0

RowRemoteActivity ==
    LET seen == Get(RowRemote, "last_activity", None)
    IN  IF seen # None /\ args.git_info.last_commit # None /\ Today - seen[1] <= 7
        THEN 2 ELSE 0

RowsQuality ==
    IF args.quality_info = None THEN 0
    ELSE LET q == args.quality_info[1]
         IN  (IF q.has_readme THEN 3 + q.readme_quality ELSE 0)
               + (IF q.has_documentation THEN 4 ELSE 0)
               + (IF q.has_tests THEN 5 + q.test_coverage ELSE 0)
               + (IF q.has_ci_cd THEN 6 ELSE 0)
               + Min(5, q.code_quality_tools)
               + q.project_structure

RowsLocal ==
    RowUncommitted + RowCommitAge + RowRemoteSync + RowHasDependencies
      + RowDependencyCount + RowMultiEcosystem

RowsRemote == RowOpenIssues + RowOpenPRs + RowStars + RowRemoteActivity

TableSum == RowsLocal + RowsRemote + RowsQuality

\* C13: for all arguments, the score returned is the baseline 10.0 plus the
\* adjustment of every row of the table whose condition holds (each row giving
\* one of its values, the remote-activity row only when there is a local
\* last-commit time), clamped to [0, 10] once, at the end: a partial sum that
\* leaves the range is carried on as it is, so the order of the rows does not
\* matter.
C13_ScoreIsClampedTableSum ==
    pc = "called" => result = Max(0, Min(100, 100 + TableSum))

\* the directories analysed so far are the root, if it is a repository, and
\* admitted entries of the root, each once and in the order of the listing
VisitedInOrder ==
    /\ \A k \in 1..Len(visited) :
          \/ visited[k] = 0 /\ k = 1 /\ HasGit(Dir(0))
          \/ visited[k] \in Admitted
    /\ \A k, l \in 1..Len(visited) : k < l => visited[k] < visited[l]

\* C16: scan_projects analyses the root first, and only if the root holds
\* repository metadata, then exactly the immediate entries that are
\* directories whose names do not start with '.'; nothing below an entry and
\* no hidden entry is analysed or recorded, and the root's record, if there
\* is one, is the first of the output.
C16_RootThenVisibleChildren ==
    /\ VisitedInOrder
    /\ Scanned => Range(visited) = Admitted \cup (IF HasGit(Dir(0)) THEN {0} ELSE {})
    /\ \A k \in 1..Len(projects) :
          /\ projects[k].path \in {Path(i) : i \in Range(visited)}
          /\ ~StartsWith(projects[k].name, <<".">>)
          /\ "inner/.git" \notin DirAt(projects[k].path).top
          /\ projects[k].path = Path(0) => k = 1

\* the statement that raised, when scan_projects ended with an exception
RaisedAt == IF pc = "raised" THEN events[Len(events)].stage ELSE "none"

\* C17 as stated: an exception of the enumeration of the root's entries
\* propagates to the caller, and only such an exception ends the walk early.
C17_OnlyEnumerationEndsWalk ==
    /\ (IterdirRaises(fs.access) /\ ~ExistsRaises(fs.access)) => ~Scanned
    /\ pc = "raised" => RaisedAt = "raise_iterdir"

\* C17, amended: scan_projects ends with an exception, which propagates to
\* the caller, exactly when its own statements on the scan root fail: the
\* probe of the root for repository metadata (a root the process may not
\* search) or the enumeration of its entries (a root that is missing, not a
\* directory, or may not be listed, or a relative root path that stopped
\* resolving because the analysis of the root left the working directory
\* inside it).  A call on a broken root never returns a collection.  The
\* exception comes before any entry is analysed; a call whose working
\* directory is where it started returns with every admitted entry analysed,
\* whatever failed inside the analyses.
C17_BrokenRootPropagates ==
    /\ fs.access # "ok" => ~Scanned
    /\ pc = "raised" =>
          /\ RaisedAt = (IF fs.access = "unsearchable" THEN "raise_exists" ELSE "raise_iterdir")
          /\ fs.access = "ok" => (~Resolves /\ visited = <<0>>)
          /\ \A i \in Range(visited) : i = 0
    /\ (fs.access = "ok" /\ Resolves /\ Scanned) => \A i \in Admitted : i \in Range(visited)

\* a root that is a repository and can be searched but not listed: its record
\* is made, then the enumeration raises
C17_Witness ==
    /\ pc = "raised"
    /\ fs.access = "unlistable"
    /\ RaisedAt = "raise_iterdir"
    /\ Len(projects) = 1
    /\ fs.children # <<>>

\* the place of a stage in the pipeline of one directory
StageRank ==
    ("vcs" :> 1) @@ ("languages" :> 2) @@ ("manifests" :> 3) @@ ("origin" :> 4)
      @@ ("metadata" :> 5) @@ ("pulls" :> 6) @@ ("quality" :> 7) @@ ("score" :> 8)

\* the events that are stages of an analysis (the others are the exceptions
\* scan_projects ended with)
StageEvents == {k \in 1..Len(events) : events[k].stage \in DOMAIN StageRank}

\* the remote requests sent for a directory
RequestsFor(dir) ==
    {k \in 1..Len(events) : events[k].dir = dir /\ events[k].stage \in {"metadata", "pulls"}}

\* C18: for each directory the stages run in the order VCS inspection,
\* manifest analysis, remote fetch, quality heuristics, score aggregation, and
\* the stages of one directory are over before those of the next begin; no
\* remote request is sent for a directory without repository metadata or
\* whose VCS inspection failed; at most two requests are sent per project;
\* the pull-request request is sent only right after a metadata request that
\* was answered successfully.
C18_StagesInOrder ==
    /\ \A k, l \in StageEvents :
          (k < l /\ events[k].dir = events[l].dir) =>
              /\ StageRank[events[k].stage] < StageRank[events[l].stage]
              /\ \A n \in k..l : events[n].dir = events[k].dir
    /\ \A k \in 1..Len(events) :
          events[k].stage \in {"metadata", "pulls"} =>
              /\ HasGit(Dir(events[k].dir))
              /\ VcsSucceeds(Dir(events[k].dir))
              /\ Cardinality(RequestsFor(events[k].dir)) <= 2
    /\ \A k \in 1..Len(events) :
          events[k].stage = "pulls" =>
              /\ k > 1
              /\ events[k - 1] = Event("metadata", events[k].dir)
              /\ Dir(events[k].dir).remote.meta.rc = "ok"
    /\ \A k \in 1..Len(events) :
          events[k].stage = "score" =>
              {"vcs", "manifests", "quality"} \subseteq
                  {events[n].stage : n \in {j \in 1..k : events[j].dir = events[k].dir}}

\* a finished scan of a root whose metadata request failed (one request), an
\* entry with both requests answered (two requests), and an entry with a
\* GitHub origin whose VCS inspection failed (no request)
C18_Witness ==
    /\ Scanned
    /\ Cardinality(RequestsFor(0)) = 1
    /\ \E i, j \in 1..Len(fs.children) :
          /\ Cardinality(RequestsFor(i)) = 2
          /\ HasGit(Dir(j)) /\ ~VcsSucceeds(Dir(j)) /\ HasGithubOrigin(Dir(j))
          /\ RequestsFor(j) = {}
          /\ Event("vcs", j) \in Range(events)

\* owner/repo shape: exactly one separator, a non-empty owner before it and a
\* non-empty repository name after it
HasOwnerRepoShape(identifier) ==
    /\ Count(identifier, <<"/">>) = 1
    /\ Len(Split(identifier, <<"/">>)[1]) > 0
    /\ Len(Split(identifier, <<"/">>)[2]) > 0

\* the origin address is of neither supported form
OtherAddress(stdout) ==
    /\ ~StartsWith(Strip(stdout), <<"g", "i", "t", "@", "g", "i", "t", "h", "u", "b", ".", "c", "o", "m", ":">>)
    /\ ~StartsWith(Strip(stdout), <<"h", "t", "t", "p", "s", ":", "/", "/", "g", "i", "t", "h", "u", "b", ".", "c", "o", "m", "/">>)

\* C19: a remote request is sent only for a directory for which
\* _get_github_repo returned an identifier; every identifier returned has
\* owner/repo shape (non-empty owner, exactly one '/', non-empty repository
\* name); for an origin address of neither supported form nothing is returned
\* and no request is sent.
C19_IdentifierHasShape ==
    /\ github_repo # None => HasOwnerRepoShape(github_repo[1])
    /\ \A k \in 1..Len(events) :
          events[k].stage \in {"metadata", "pulls"} =>
              /\ Dir(events[k].dir).origin.rc = "ok"
              /\ RepoFromUrl(Dir(events[k].dir).origin.out) # None
              /\ ~OtherAddress(Dir(events[k].dir).origin.out)
    /\ (pc \in {"repo_exit", "fetch"} /\ Dir(cur).origin.rc = "ok"
          /\ OtherAddress(Dir(cur).origin.out)) => github_repo = None

\* the record of a repository has the open-issues and open-PR values given
IssuesAndPulls(r, open_issues, open_prs) ==
    /\ r.open_issues = open_issues
    /\ r.open_prs = open_prs
    /\ r.open_issues >= 0

\* C20: when both remote requests succeed, the record's open issues are
\* max(0, raw open-issues count - open-PR count) and its open PRs the length
\* of the pull-request list, never negative; when only the pull-request
\* request fails, the record's open PRs are 0 and its open issues the raw
\* count.
C20_IssuesNetOfPulls ==
    (Scanned /\ HasGit(Dir(0)) /\ VcsSucceeds(Dir(0)) /\ Dir(0).walk_ok
       /\ HasGithubOrigin(Dir(0)) /\ Dir(0).remote.meta.rc = "ok") =>
        /\ Len(projects) = 1
        /\ LET remote == Dir(0).remote
           IN  IF remote.pulls.rc = "ok"
               THEN IssuesAndPulls(projects[1],
                                   Max(0, remote.meta.open_issues_count - remote.pulls.n),
                                   remote.pulls.n)
               ELSE IssuesAndPulls(projects[1], remote.meta.open_issues_count, 0)

\* the manifests of the directory analysed that the analyzer took in
ManifestsRead ==
    {f \in {"package.json", "requirements.txt", "pyproject.toml", "go.mod"} :
        /\ f \in args.top
        /\ CASE f = "package.json"     -> args.package_json.ok
             [] f = "requirements.txt" -> args.requirements.ok
             [] f = "pyproject.toml"   -> args.pyproject.ok
             [] f = "go.mod"           -> args.go_mod.ok}

\* the score of the call at hand with the multi-ecosystem row left out
ScoreWithoutMultiRow ==
    UnclampedScore(result.git_info[1], result.dep_info, Some(DefaultGithubInfo),
                   Some(result.quality_info))
      - MultiLanguageAdj(result.dep_info)

\* C21: the multi-ecosystem bonus of +0.2 is part of the score exactly when
\* the manifests found cover more than one language; a project whose
\* manifests all belong to one language (requirements.txt and pyproject.toml,
\* both Python) does not get it.
C21_BonusNeedsTwoLanguages ==
    pc = "scored_signals" =>
        health_score = Clamp(ScoreWithoutMultiRow
                               + (IF Cardinality(Range(result.dep_info.languages)) > 1
                                  THEN 2 ELSE 0))

\* YYYY-MM-DD, a date of the calendar
PrintedDate(s) ==
    /\ Len(s) = 10
    /\ s[5] = "-" /\ s[8] = "-"
    /\ AllDigits(SubSeq(s, 1, 4)) /\ AllDigits(SubSeq(s, 6, 7)) /\ AllDigits(SubSeq(s, 9, 10))
    /\ ValidDate(NumberAt(s, 1, 4), NumberAt(s, 6, 2), NumberAt(s, 9, 2))

\* HH:MM:SS, a time of the day
PrintedTime(s) ==
    /\ Len(s) = 8
    /\ s[3] = ":" /\ s[6] = ":"
    /\ AllDigits(SubSeq(s, 1, 2)) /\ AllDigits(SubSeq(s, 4, 5)) /\ AllDigits(SubSeq(s, 7, 8))
    /\ NumberAt(s, 1, 2) < 24 /\ NumberAt(s, 4, 2) < 60 /\ NumberAt(s, 7, 2) < 60

\* HHMM, the digits of a UTC offset
PrintedOffset(s) ==
    /\ Len(s) = 4
    /\ AllDigits(s)
    /\ NumberAt(s, 1, 2) < 24 /\ NumberAt(s, 3, 2) < 60

\* the output of git log is a timestamp as %ci prints it:
\* YYYY-MM-DD HH:MM:SS, a space, a sign and four digits
WellFormedStamp(stdout) ==
    LET stamp == Strip(stdout)
    IN  /\ Len(stamp) = 25
        /\ PrintedDate(SubSeq(stamp, 1, 10))
        /\ stamp[11] = " "
        /\ PrintedTime(SubSeq(stamp, 12, 19))
        /\ stamp[20] = " "
        /\ stamp[21] \in {"+", "-"}
        /\ PrintedOffset(SubSeq(stamp, 22, 25))

\* date and time of a well-formed timestamp, joined by 'T', without the offset
WithoutOffset(stdout) ==
    SubSeq(Strip(stdout), 1, 10) \o <<"T">> \o SubSeq(Strip(stdout), 12, 19)

\* the repository whose last commit the inspector has just read
LogRead == pc = "git_status" /\ Dir(cur).vcs.log.rc = "ok"

\* the inspector that ran its commands returns branch and uncommitted count,
\* and the record of the repository keeps them
RecordKeepsBranchAndCount ==
    /\ (pc = "git_done" /\ fs.root[1] = "log") =>
          /\ git_info # None
          /\ git_info[1].branch = BranchName(Dir(0).vcs.branch.out)
          /\ git_info[1].uncommitted = Uncommitted(Dir(0).vcs.status.out)
          /\ (~DigitsAt(Strip(Dir(0).vcs.log.out), 1, 4)
                => git_info[1].last_commit = None)
    /\ (Scanned /\ fs.root[1] = "log" /\ ~fs.start_removed) =>
          /\ Len(projects) = 1
          /\ projects[1].branch = BranchName(Dir(0).vcs.branch.out)
          /\ projects[1].uncommitted_changes = Uncommitted(Dir(0).vcs.status.out)
          /\ (~DigitsAt(Strip(Dir(0).vcs.log.out), 1, 4)
                => projects[1].last_commit = None)

\* C22 as stated: for every well-formed last-commit timestamp, with a positive
\* or a negative UTC offset, the inspector cuts the text at the offset marker
\* before parsing and obtains a last-commit time; a text that cannot be parsed
\* gives no last-commit time while branch and uncommitted count are returned.
C22_OffsetCutBeforeParsing ==
    /\ (LogRead /\ WellFormedStamp(Dir(cur).vcs.log.out)) =>
          /\ CommitDateText(Dir(cur).vcs.log.out) = WithoutOffset(Dir(cur).vcs.log.out)
          /\ last_commit = Some(Dir(cur).vcs.log.day)
    /\ RecordKeepsBranchAndCount

\* C22 as amended: for every well-formed last-commit timestamp the inspector
\* obtains a last-commit time, so the commit-age row applies; the text is cut
\* at the offset marker only when the marker is '+'; a '-' offset stays in the
\* text handed to the parser, after a second 'T', and the parser accepts it.
\* A text that cannot be parsed gives no last-commit time while branch and
\* uncommitted count are returned.
C22_TimePresentForBothSigns ==
    /\ (LogRead /\ WellFormedStamp(Dir(cur).vcs.log.out)) =>
          LET out   == Dir(cur).vcs.log.out
              stamp == Strip(out)
          IN  /\ last_commit = Some(Dir(cur).vcs.log.day)
              /\ stamp[21] = "+" => CommitDateText(out) = WithoutOffset(out)
              /\ stamp[21] = "-" =>
                    CommitDateText(out) = WithoutOffset(out) \o <<"T">> \o SubSeq(stamp, 21, 25)
    /\ (pc = "build" /\ WellFormedStamp(Dir(cur).vcs.log.out)) =>
          /\ git_info[1].last_commit = Some(Dir(cur).vcs.log.day)
          /\ Dir(cur).vcs.log.day = Today - 400 => CommitAgeAdj(git_info[1]) = -40
    /\ RecordKeepsBranchAndCount

\* the record of a repository whose last commit, 400 days old, was printed
\* with a negative offset
C22_Witness ==
    /\ Scanned
    /\ fs.root[1] = "log"
    /\ WellFormedStamp(Dir(0).vcs.log.out)
    /\ Strip(Dir(0).vcs.log.out)[21] = "-"
    /\ Len(projects) = 1
    /\ projects[1].last_commit = Some(Today - 400)

\* the fields of the quality result the test check writes
TestFields == {"has_tests", "test_coverage"}

\* C24: _check_project_quality never raises, and a file-system error inside
\* one check, here the tree walk of the test check, degrades only that check
\* to absent/zero: every other check (README, CI, documentation, quality
\* tools, structure) gives what it gives on the same directory when the walk
\* completes.
C24_ChecksIndependent ==
    QualityCalled =>
        LET undisturbed == _check_project_quality([args EXCEPT !.walk_ok = TRUE])
        IN  /\ \A field \in (DOMAIN undisturbed) \ TestFields :
                  result.quality_info[field] = undisturbed[field]
            /\ ~args.walk_ok =>
                  /\ result.quality_info.has_tests = FALSE
                  /\ result.quality_info.test_coverage = 0

\* the manifests, each with the key of its count and its language tag
ManifestNames == {"package.json", "requirements.txt", "pyproject.toml", "go.mod"}

CountKey(f) ==
    CASE f = "package.json"     -> "npm"
      [] f = "requirements.txt" -> "pip"
      [] f = "pyproject.toml"   -> "poetry"
      [] f = "go.mod"           -> "go"

\* the manifests of the directory analysed that exist and cannot be read or parsed
ManifestsFailing == (ManifestNames \cap args.top) \ ManifestsRead

\* C23: a read or parse error on one manifest leaves no trace of that
\* ecosystem in the result of _check_dependencies (no count entry, no detail
\* string, no language tag, has-dependencies not set by it) and leaves what
\* every other manifest contributes exactly as it is without the failing
\* manifest; the analyzer returns its result.
C23_FailingManifestLeavesNoTrace ==
    DependenciesCalled =>
        \A f \in ManifestsFailing :
            /\ CountKey(f) \notin DOMAIN result.dep_info.dep_counts
            /\ \A k \in 1..Len(result.dep_info.details) :
                  result.dep_info.details[k][1] # CountKey(f)
            /\ result.dep_info = _check_dependencies([args EXCEPT !.top = @ \ {f}])
            /\ Len(result.dep_info.languages) = Cardinality(DOMAIN result.dep_info.dep_counts)
            /\ result.dep_info.has_deps = (DOMAIN result.dep_info.dep_counts # {})

\* the analyzer has returned on a directory whose requirements.txt and
\* package.json cannot be read while its go.mod and pyproject.toml can
C23_Witness ==
    /\ pc = "called_signals"
    /\ ManifestsFailing = {"requirements.txt", "package.json"}
    /\ DOMAIN result.dep_info.dep_counts = {"go", "poetry"}
    /\ result.dep_info.languages = <<"Python", "Go">>

\* the module-declaration line and the version-directive line of a go.mod:
\* the keyword, then a blank, then its argument
IsModuleDeclaration(line) == StartsWith(Strip(line), <<"m", "o", "d", "u", "l", "e", " ">>)

IsVersionDirective(line) == StartsWith(Strip(line), <<"g", "o", " ">>)

\* C25: for a go.mod that is read, the count reported is the number of lines
\* that are neither blank nor the module-declaration line nor the
\* version-directive line; every other non-blank line is counted, a
\* dependency line whose module path begins with 'go' included.
C25_GoModCountsOtherLines ==
    (DependenciesCalled /\ "go.mod" \in ManifestsRead) =>
        /\ "go" \in DOMAIN result.dep_info.dep_counts
        /\ result.dep_info.dep_counts["go"] =
              Cardinality({i \in 1..Len(args.go_mod.lines) :
                              /\ Strip(args.go_mod.lines[i]) # <<>>
                              /\ ~IsModuleDeclaration(args.go_mod.lines[i])
                              /\ ~IsVersionDirective(args.go_mod.lines[i])})

\* the state of the line scanner of pyproject.toml after its first n lines
ScannerAfter(n) ==
    PoetryScan(SubSeq(args.pyproject.lines, 1, n), 1,
               [in_poetry_deps |-> FALSE, in_dev_deps |-> FALSE,
                poetry_deps |-> 0, dev_deps |-> 0])

IsSectionHeader(line) == StartsWith(Strip(line), <<"[">>)

IsDependencyHeader(line) == Strip(line) = <<"[", "t", "o", "o", "l", ".", "p", "o", "e", "t", "r", "y", ".", "d", "e", "p", "e", "n", "d", "e", "n", "c", "i", "e", "s", "]">>

IsGroupHeader(line) ==
    /\ StartsWith(Strip(line), <<"[", "t", "o", "o", "l", ".", "p", "o", "e", "t", "r", "y", ".", "g", "r", "o", "u", "p", ".">>)
    /\ Contains(Strip(line), <<"d", "e", "p", "e", "n", "d", "e", "n", "c", "i", "e", "s", "]">>)

\* line i lies inside the dependency section: after its header, with no other
\* section header in between
InDependencySection(lines, i) ==
    /\ ~IsSectionHeader(lines[i])
    /\ \E j \in 1..(i - 1) :
          /\ IsDependencyHeader(lines[j])
          /\ \A k \in (j + 1)..(i - 1) : ~IsSectionHeader(lines[k])

\* the version pin of the language runtime: the key of the line is 'python'
IsRuntimePin(line) == Strip(Split(Strip(line), <<"=">>)[1]) = <<"p", "y", "t", "h", "o", "n">>

\* the dependency lines of the file as the specification counts them
DeclaredDependencies(lines) ==
    {i \in 1..Len(lines) :
        /\ InDependencySection(lines, i)
        /\ ~StartsWith(Strip(lines[i]), <<"#">>)
        /\ Contains(lines[i], <<"=">>)
        /\ ~IsRuntimePin(lines[i])}

\* C26: scanning a pyproject.toml, the line scanner is in at most one of the
\* two section states at any line, any other section header leaves both
\* states, and the dependency count is the number of non-comment lines
\* containing '=' inside the dependency section, excluding only the version
\* pin of the language runtime: a package whose name merely starts with
\* 'python' is counted.
C26_PoetryCountExcludesOnlyRuntimePin ==
    (DependenciesCalled /\ "pyproject.toml" \in ManifestsRead) =>
        LET lines == args.pyproject.lines
        IN  /\ \A n \in 0..Len(lines) :
                  ~(ScannerAfter(n).in_poetry_deps /\ ScannerAfter(n).in_dev_deps)
            /\ \A n \in 1..Len(lines) :
                  (IsSectionHeader(lines[n]) /\ ~IsDependencyHeader(lines[n])
                     /\ ~IsGroupHeader(lines[n]))
                    => (~ScannerAfter(n).in_poetry_deps /\ ~ScannerAfter(n).in_dev_deps)
            /\ \A k \in 1..Len(result.dep_info.details) :
                  result.dep_info.details[k][1] = "poetry" =>
                      result.dep_info.details[k][2] = Cardinality(DeclaredDependencies(lines))

====
